---- MODULE Spec2Model ----
(***************************************************************************)
(* Operation dependency graph and orchestration compiler of pulpo.         *)
(*                                                                         *)
(*   core/hierarchy.py                   HierarchyParser                   *)
(*   core/analysis/dataflow/dataflow.py  DataFlowGraph, DataFlowAnalyzer   *)
(*   core/orchestration/compiler.py      FlowDefinition, Orchestration,    *)
(*                                       OrchestrationCompiler             *)
(*                                                                         *)
(* An operation name is a Python string, modelled as the sequence of its   *)
(* characters, so that splitting, joining and prefix tests are computed.   *)
(* A Python dict is modelled with its insertion order: the sequence of its *)
(* keys and a function from the keys to the values.                         *)
(***************************************************************************)
EXTENDS Integers, Sequences, FiniteSets, TLC

VARIABLES
    operations,        \* the operation list handed to the analyzer / compiler
    graph,             \* the DataFlowGraph held by the caller of the analyzer
    self_operations,   \* OrchestrationCompiler.operations of the one instance:
                       \* the address of the dict the attribute is bound to
    heap,              \* the dicts made so far: heap[a] is what the dict at a holds
    returned,          \* what the first compile() of `operations` returned
    result             \* outcome of the latest call

vars == <<operations, graph, self_operations, heap, returned, result>>

----------------------------------------------------------------------------
(* Bounds *)

MaxOps == 3        \* longest operation list given to the analyzer
NumModels == 2     \* its data models are 1..NumModels
MaxIO == 2         \* most model references (inputs plus outputs) of one operation
MaxFlowOps == 3    \* longest operation list given to the compiler
NumFlowModels == 1 \* its data models are 1..NumFlowModels
MaxNames == 3      \* longest name list given to the hierarchy parser
MaxTyped == 3      \* most characters at the head of a parsed name
MaxDeepen == 11    \* most ".a" segments appended to that head
MaxMembers == 3    \* most names a hand-made flow is made of
MaxDeps == 2       \* longest dependency list in its dependencies map
MaxCompiles == 3   \* most compile() calls on the one compiler instance
MaxAlike == 3      \* most operations registered from the names that map alike
MaxChildren == 3   \* most names find_children searches in
MaxEdges == 3      \* most add_dependency calls on a graph filled by hand
MaxWords == 2      \* most words a function name is written with

Models == 1..NumModels

----------------------------------------------------------------------------
(* Python values *)

None == <<"None">>          \* differs from every string: characters are 1 long

Range(s) == {s[i] : i \in 1..Len(s)}

Concat(ss) ==               \* "".join(ss) for a sequence of strings
    LET f[i \in 0..Len(ss)] == IF i = 0 THEN <<>> ELSE f[i - 1] \o ss[i]
    IN f[Len(ss)]

FoldLeft(Op(_, _), acc, s) ==      \* acc after `for x in s: acc = Op(acc, x)`
    LET f[i \in 0..Len(s)] == IF i = 0 THEN acc ELSE Op(f[i - 1], s[i])
    IN f[Len(s)]

Filter(s, Test(_)) == SelectSeq(s, Test)

With(v, Body(_)) == Body(v)        \* a local variable: `x = v`, then the body

EmptyDict == [keys |-> <<>>, val |-> <<>>]

DictHas(d, k) == k \in Range(d.keys)

DictGet(d, k, default) == IF DictHas(d, k) THEN d.val[k] ELSE default

DictPut(d, k, v) ==         \* d[k] = v : a new key goes last, an old one stays
    [keys |-> IF DictHas(d, k) THEN d.keys ELSE Append(d.keys, k),
     val  |-> [x \in Range(d.keys) \cup {k} |-> IF x = k THEN v ELSE d.val[x]]]

SetDefault(d, k) == IF DictHas(d, k) THEN d ELSE DictPut(d, k, <<>>)

DictItems(d) == [i \in 1..Len(d.keys) |-> <<d.keys[i], d.val[d.keys[i]]>>]

----------------------------------------------------------------------------
(* core/hierarchy.py *)

SEPARATOR == "."
MAX_LEVEL == 10

Letters ==
    {"a", "b", "c", "d", "e", "f", "g", "h", "i", "j", "k", "l", "m",
     "n", "o", "p", "q", "r", "s", "t", "u", "v", "w", "x", "y", "z",
     "A", "B", "C", "D", "E", "F", "G", "H", "I", "J", "K", "L", "M",
     "N", "O", "P", "Q", "R", "S", "T", "U", "V", "W", "X", "Y", "Z"}
Digits == {"0", "1", "2", "3", "4", "5", "6", "7", "8", "9"}
eacute == "e-acute"          \* the one character U+00E9, a letter outside ASCII
UnicodeLetters == {eacute}
OtherChars == {"-"}
Chars == Letters \cup Digits \cup UnicodeLetters \cup {SEPARATOR, "_"} \cup OtherChars

isalnum(str) ==              \* str.isalnum(): non-empty, Unicode letters and digits only
    /\ Len(str) > 0
    /\ \A i \in 1..Len(str) : str[i] \in Letters \cup Digits \cup UnicodeLetters

replace(str, old, new) ==    \* str.replace(old, new), old one character
    Concat([i \in 1..Len(str) |-> IF str[i] = old THEN new ELSE <<str[i]>>])

split(str, sep) ==           \* str.split(sep): Len = occurrences of sep + 1
    LET f[i \in 0..Len(str)] ==
            IF i = 0 THEN <<<<>>>>
            ELSE IF str[i] = sep THEN Append(f[i - 1], <<>>)
            ELSE LET prev == f[i - 1]
                 IN [prev EXCEPT ![Len(prev)] = Append(@, str[i])]
    IN f[Len(str)]

join(sep, parts) ==          \* sep.join(parts)
    Concat([i \in 1..Len(parts) |-> IF i = 1 THEN parts[i] ELSE <<sep>> \o parts[i]])

startswith(str, prefix) ==
    Len(prefix) <= Len(str) /\ SubSeq(str, 1, Len(prefix)) = prefix

ValueError(msg) == [ok |-> FALSE, error |-> "ValueError", msg |-> msg]
Ok(v) == [ok |-> TRUE, value |-> v]

root(parsed) ==               \* ParsedName.root
    IF Len(parsed.hierarchy) > 0 THEN parsed.hierarchy[1] ELSE <<>>

all_parents(parsed) ==        \* ParsedName.all_parents
    IF parsed.is_standalone THEN <<>>
    ELSE [i \in 1..(Len(parsed.hierarchy) - 1) |->
            join(".", SubSeq(parsed.hierarchy, 1, i))]

parse_rejects_at_limit(name) ==   \* parse with `>=` in the depth test
    IF Len(name) = 0 THEN ValueError("Operation name must be non-empty string")
    ELSE IF ~isalnum(replace(replace(name, ".", <<>>), "_", <<>>))
    THEN ValueError("Operation name must contain only alphanumeric, dots, and underscores")
    ELSE With(Filter(split(name, SEPARATOR), LAMBDA p : Len(p) > 0), LAMBDA parts :
            IF Len(parts) = 0
            THEN ValueError("Operation name cannot be empty or only dots")
            ELSE IF Len(parts) >= MAX_LEVEL
            THEN ValueError("Operation hierarchy too deep")
            ELSE LET level == Len(parts)
                     is_standalone == level = 1
                 IN Ok([full_name |-> name,
                        hierarchy |-> parts,
                        level |-> level,
                        step |-> parts[Len(parts)],
                        parent |-> IF ~is_standalone
                                   THEN join(SEPARATOR, SubSeq(parts, 1, Len(parts) - 1))
                                   ELSE None,
                        is_standalone |-> is_standalone]))

parse_keeps_empty_parts(name) ==  \* parse without `parts = [p for p in parts if p]`
    IF Len(name) = 0 THEN ValueError("Operation name must be non-empty string")
    ELSE IF ~isalnum(replace(replace(name, ".", <<>>), "_", <<>>))
    THEN ValueError("Operation name must contain only alphanumeric, dots, and underscores")
    ELSE With(split(name, SEPARATOR), LAMBDA parts :
            IF Len(parts) = 0
            THEN ValueError("Operation name cannot be empty or only dots")
            ELSE IF Len(parts) > MAX_LEVEL
            THEN ValueError("Operation hierarchy too deep")
            ELSE LET level == Len(parts)
                     is_standalone == level = 1
                 IN Ok([full_name |-> name,
                        hierarchy |-> parts,
                        level |-> level,
                        step |-> parts[Len(parts)],
                        parent |-> IF ~is_standalone
                                   THEN join(SEPARATOR, SubSeq(parts, 1, Len(parts) - 1))
                                   ELSE None,
                        is_standalone |-> is_standalone]))

parse(name) ==
    IF Len(name) = 0 THEN ValueError("Operation name must be non-empty string")
    ELSE IF ~isalnum(replace(replace(name, ".", <<>>), "_", <<>>))
    THEN ValueError("Operation name must contain only alphanumeric, dots, and underscores")
    ELSE With(Filter(split(name, SEPARATOR), LAMBDA p : Len(p) > 0), LAMBDA parts :
            IF Len(parts) = 0
            THEN ValueError("Operation name cannot be empty or only dots")
            ELSE IF Len(parts) > MAX_LEVEL
            THEN ValueError("Operation hierarchy too deep")
            ELSE LET level == Len(parts)
                     is_standalone == level = 1
                 IN Ok([full_name |-> name,
                        hierarchy |-> parts,
                        level |-> level,
                        step |-> parts[Len(parts)],
                        parent |-> IF ~is_standalone
                                   THEN join(SEPARATOR, SubSeq(parts, 1, Len(parts) - 1))
                                   ELSE None,
                        is_standalone |-> is_standalone]))

hierarchy_get_level(name) ==
    With(parse(name), LAMBDA p : IF p.ok THEN Ok(p.value.level) ELSE p)

get_parent(name) ==
    With(parse(name), LAMBDA p : IF p.ok THEN Ok(p.value.parent) ELSE p)

group_by_root_key(names) ==      \* group_by_parent keyed like group_by_root
    LET step(acc, name) ==
            IF ~acc.ok THEN acc
            ELSE With(parse(name), LAMBDA parsed :
                    IF ~parsed.ok THEN parsed
                    ELSE With(IF parsed.value.is_standalone THEN None
                              ELSE parsed.value.hierarchy[1], LAMBDA parent :
                         With(SetDefault(acc.value, parent), LAMBDA groups :
                            Ok(DictPut(groups, parent, Append(groups.val[parent], name))))))
    IN FoldLeft(step, Ok(EmptyDict), names)

group_by_parent_skipping(names) ==   \* leaves out the names that parse rejects
    LET step(acc, name) ==
            With(parse(name), LAMBDA parsed :
                IF ~parsed.ok THEN acc
                ELSE With(parsed.value.parent, LAMBDA parent :
                     With(SetDefault(acc.value, parent), LAMBDA groups :
                        Ok(DictPut(groups, parent, Append(groups.val[parent], name))))))
    IN FoldLeft(step, Ok(EmptyDict), names)

group_by_parent(names) ==
    LET step(acc, name) ==
            IF ~acc.ok THEN acc
            ELSE With(parse(name), LAMBDA parsed :
                    IF ~parsed.ok THEN parsed
                    ELSE With(parsed.value.parent, LAMBDA parent :
                         With(SetDefault(acc.value, parent), LAMBDA groups :
                            Ok(DictPut(groups, parent, Append(groups.val[parent], name))))))
    IN FoldLeft(step, Ok(EmptyDict), names)

find_children(parent_name, all_names) ==
    With(parent_name \o <<SEPARATOR>>, LAMBDA parent_prefix :
    With(hierarchy_get_level(parent_name), LAMBDA parent_level :
       LET step(children, name) ==
               IF ~children.ok THEN children
               ELSE IF ~startswith(name, parent_prefix) THEN children
               ELSE With(hierarchy_get_level(name), LAMBDA child_level :
                       IF ~child_level.ok THEN child_level
                       ELSE IF child_level.value = parent_level.value + 1
                            THEN Ok(Append(children.value, name))
                            ELSE children)
       IN IF ~parent_level.ok THEN parent_level
          ELSE FoldLeft(step, Ok(<<>>), all_names)))

----------------------------------------------------------------------------
(* core/analysis/dataflow/dataflow.py *)

OperationMetadata(name, inputs, outputs) ==
    [name |-> name, inputs |-> inputs, outputs |-> outputs]

can_run_parallel_same_outputs(self, other) ==   \* compares the outputs only
    Range(self.outputs) = Range(other.outputs)

can_run_parallel_either(self, other) ==   \* the same inputs or the same outputs
    \/ Range(self.inputs) = Range(other.inputs)
    \/ Range(self.outputs) = Range(other.outputs)

can_run_parallel_with(self, other) ==
    /\ Range(self.inputs) = Range(other.inputs)
    /\ Range(self.outputs) = Range(other.outputs)

DependencyEdge(source, target, data_models) ==
    [source |-> source, target |-> target, data_models |-> data_models]

DataFlowGraph ==             \* DataFlowGraph.__init__
    [operations |-> EmptyDict,
     edges |-> <<>>,
     adjacency |-> EmptyDict,             \* op_name -> [depends_on]
     reverse_adjacency |-> EmptyDict]     \* op_name -> [dependents]

add_operation_resetting(g, metadata) ==   \* add_operation that always starts the lists anew
    [g EXCEPT !.operations = DictPut(@, metadata.name, metadata),
              !.adjacency = DictPut(@, metadata.name, <<>>),
              !.reverse_adjacency = DictPut(@, metadata.name, <<>>)]

add_operation(g, metadata) ==
    [g EXCEPT !.operations = DictPut(@, metadata.name, metadata),
              !.adjacency = SetDefault(@, metadata.name),
              !.reverse_adjacency = SetDefault(@, metadata.name)]

add_dependency(g, source, target, data_models) ==
    With(SetDefault(SetDefault(g.adjacency, source), target), LAMBDA adj :
    With(SetDefault(SetDefault(g.reverse_adjacency, source), target), LAMBDA rev :
        [g EXCEPT !.edges = Append(@, DependencyEdge(source, target, data_models)),
                  !.adjacency = DictPut(adj, target, Append(adj.val[target], source)),
                  !.reverse_adjacency = DictPut(rev, source, Append(rev.val[source], target))]))

get_dependencies(g, op_name) == DictGet(g.adjacency, op_name, <<>>)

get_dependents(g, op_name) == DictGet(g.reverse_adjacency, op_name, <<>>)

(* has_cycle_util(node) with the sets it updates passed in and out; the    *)
(* second operator is its `for neighbor in ...` loop from position i on.   *)
RECURSIVE has_cycle_util(_, _, _, _)
RECURSIVE has_cycle_neighbors(_, _, _, _, _)

has_cycle_util(g, node, visited, rec_stack) ==
    With(has_cycle_neighbors(g, DictGet(g.adjacency, node, <<>>), 1,
                             visited \cup {node}, rec_stack \cup {node}), LAMBDA r :
        IF r.cycle THEN r
        ELSE [cycle |-> FALSE, visited |-> r.visited, rec_stack |-> r.rec_stack \ {node}])

has_cycle_neighbors(g, neighbors, i, visited, rec_stack) ==
    IF i > Len(neighbors)
    THEN [cycle |-> FALSE, visited |-> visited, rec_stack |-> rec_stack]
    ELSE LET neighbor == neighbors[i]
         IN IF neighbor \notin visited
            THEN With(has_cycle_util(g, neighbor, visited, rec_stack), LAMBDA r :
                    IF r.cycle THEN r
                    ELSE has_cycle_neighbors(g, neighbors, i + 1, r.visited, r.rec_stack))
            ELSE IF neighbor \in rec_stack
            THEN [cycle |-> TRUE, visited |-> visited, rec_stack |-> rec_stack]
            ELSE has_cycle_neighbors(g, neighbors, i + 1, visited, rec_stack)

has_cycle_first_only(g) ==   \* has_cycle that starts the search at the first node only
    IF Len(g.operations.keys) = 0 THEN FALSE
    ELSE has_cycle_util(g, g.operations.keys[1], {}, {}).cycle

has_cycle(g) ==
    LET step(acc, node) ==
            IF acc.cycle THEN acc
            ELSE IF node \notin acc.visited
            THEN has_cycle_util(g, node, acc.visited, acc.rec_stack)
            ELSE acc
    IN FoldLeft(step, [cycle |-> FALSE, visited |-> {}, rec_stack |-> {}],
                g.operations.keys).cycle

(* visit(node) of topological_sort, with visited and result passed along. *)
RECURSIVE visit(_, _, _)
RECURSIVE visit_deps(_, _, _, _)

visit(g, node, st) ==
    IF node \in st.visited THEN st
    ELSE LET after == visit_deps(g, get_dependencies(g, node), 1,
                                 [st EXCEPT !.visited = @ \cup {node}])
         IN [after EXCEPT !.result = Append(@, node)]

visit_deps(g, deps, i, st) ==
    IF i > Len(deps) THEN st
    ELSE visit_deps(g, deps, i + 1, visit(g, deps[i], st))

topological_sort_reversed(g) ==   \* topological_sort that emits dependents first
    IF has_cycle(g)
    THEN ValueError("Circular dependency detected in operation graph")
    ELSE LET step(st, node) == visit(g, node, st)
             order == FoldLeft(step, [visited |-> {}, result |-> <<>>],
                               g.operations.keys).result
         IN Ok([i \in 1..Len(order) |-> order[Len(order) + 1 - i]])

topological_sort(g) ==
    IF has_cycle(g)
    THEN ValueError("Circular dependency detected in operation graph")
    ELSE LET step(st, node) == visit(g, node, st)
         IN Ok(FoldLeft(step, [visited |-> {}, result |-> <<>>], g.operations.keys).result)

RecursionError == [ok |-> FALSE, error |-> "RecursionError",
                   msg |-> "maximum recursion depth exceeded"]

sorted(S) ==                 \* sorted(keys) for a set of integers
    LET f[T \in SUBSET S] ==
            IF T = {} THEN <<>>
            ELSE LET m == CHOOSE x \in T : \A y \in T : x <= y
                 IN <<m>> \o f[T \ {m}]
    IN f[S]

min(a, b) == IF a <= b THEN a ELSE b

max(a, b) == IF a >= b THEN a ELSE b

(* get_level(op_name) of find_parallel_groups, with the levels dict passed *)
(* in and out.  `path` is the chain of calls that have not returned: a     *)
(* call for a name on it (whose level is not yet stored) recurses without  *)
(* end, which the interpreter stops with RecursionError.                   *)
RECURSIVE get_level(_, _, _, _)
RECURSIVE get_level_deps(_, _, _, _, _, _)

get_level(g, op_name, levels, path) ==
    IF DictHas(levels, op_name)
    THEN [ok |-> TRUE, levels |-> levels, level |-> levels.val[op_name]]
    ELSE IF op_name \in path
    THEN [ok |-> FALSE, levels |-> levels, level |-> 0]
    ELSE LET deps == get_dependencies(g, op_name)
         IN IF Len(deps) = 0
            THEN [ok |-> TRUE, levels |-> DictPut(levels, op_name, 0), level |-> 0]
            ELSE LET r == get_level_deps(g, deps, 1, levels, path \cup {op_name}, 0)
                 IN IF ~r.ok THEN r
                    ELSE [ok |-> TRUE,
                          levels |-> DictPut(r.levels, op_name, r.level + 1),
                          level |-> r.level + 1]

get_level_deps(g, deps, i, levels, path, best) ==   \* max(get_level(d) for d in deps)
    IF i > Len(deps) THEN [ok |-> TRUE, levels |-> levels, level |-> best]
    ELSE LET r == get_level(g, deps[i], levels, path)
         IN IF ~r.ok THEN r
            ELSE get_level_deps(g, deps, i + 1, r.levels, path, max(best, r.level))

find_parallel_groups(g) ==
    LET calc(acc, op_name) ==
            IF ~acc.ok THEN acc ELSE get_level(g, op_name, acc.levels, {})
        all == FoldLeft(calc, [ok |-> TRUE, levels |-> EmptyDict, level |-> 0],
                        g.operations.keys)
        group(level_groups, item) ==
            LET lg == SetDefault(level_groups, item[2])
            IN DictPut(lg, item[2], Append(lg.val[item[2]], item[1]))
        level_groups == FoldLeft(group, EmptyDict, DictItems(all.levels))
        order == sorted(Range(level_groups.keys))
    IN IF ~all.ok THEN RecursionError
       ELSE Ok([i \in 1..Len(order) |-> level_groups.val[order[i]]])

build_with_self_loops(ops) ==    \* build_dependency_graph without the self-loop test
    LET withOps == FoldLeft(add_operation, DataFlowGraph, ops)
        produce(output_producers, op) ==
            LET one(acc, output) ==
                    With(SetDefault(acc, output), LAMBDA d :
                        DictPut(d, output, Append(d.val[output], op.name)))
            IN FoldLeft(one, output_producers, op.outputs)
        output_producers == FoldLeft(produce, EmptyDict, ops)
        depend(g0, op) ==
            LET perInput(g1, input_model) ==
                    LET producers == DictGet(output_producers, input_model, <<>>)
                        perProducer(g2, producer_name) ==
                            add_dependency(g2, producer_name, op.name, <<input_model>>)
                    IN FoldLeft(perProducer, g1, producers)
            IN FoldLeft(perInput, g0, op.inputs)
    IN FoldLeft(depend, withOps, ops)

build_first_producer(ops) ==     \* build_dependency_graph that stops at one producer
    LET withOps == FoldLeft(add_operation, DataFlowGraph, ops)
        produce(output_producers, op) ==
            LET one(acc, output) ==
                    With(SetDefault(acc, output), LAMBDA d :
                        DictPut(d, output, Append(d.val[output], op.name)))
            IN FoldLeft(one, output_producers, op.outputs)
        output_producers == FoldLeft(produce, EmptyDict, ops)
        depend(g0, op) ==
            LET perInput(g1, input_model) ==
                    LET producers == DictGet(output_producers, input_model, <<>>)
                        others == Filter(producers, LAMBDA n : n # op.name)
                    IN IF others = <<>> THEN g1
                       ELSE add_dependency(g1, others[1], op.name, <<input_model>>)
            IN FoldLeft(perInput, g0, op.inputs)
    IN FoldLeft(depend, withOps, ops)

build_dependency_graph(ops) ==
    LET withOps == FoldLeft(add_operation, DataFlowGraph, ops)
        \* output -> producing operations
        produce(output_producers, op) ==
            LET one(acc, output) ==
                    With(SetDefault(acc, output), LAMBDA d :
                        DictPut(d, output, Append(d.val[output], op.name)))
            IN FoldLeft(one, output_producers, op.outputs)
        output_producers == FoldLeft(produce, EmptyDict, ops)
        depend(g0, op) ==
            LET perInput(g1, input_model) ==
                    LET producers == DictGet(output_producers, input_model, <<>>)
                        perProducer(g2, producer_name) ==
                            IF producer_name = op.name THEN g2   \* skip self-loops
                            ELSE add_dependency(g2, producer_name, op.name,
                                                <<input_model>>)
                    IN FoldLeft(perProducer, g1, producers)
            IN FoldLeft(perInput, g0, op.inputs)
    IN FoldLeft(depend, withOps, ops)

validate_dataflow(ops) ==
    IF has_cycle(build_dependency_graph(ops))
    THEN <<FALSE, "Circular dependency detected in operation graph">>
    ELSE <<TRUE, "">>

analyze(ops) ==
    With(build_dependency_graph(ops), LAMBDA g :
    With(validate_dataflow(ops), LAMBDA valid :
    With(IF valid[1] THEN topological_sort(g) ELSE Ok(<<>>), LAMBDA execution_order :
    With(IF valid[1] THEN find_parallel_groups(g) ELSE Ok(<<>>), LAMBDA parallel_groups :
        IF ~execution_order.ok THEN execution_order
        ELSE IF ~parallel_groups.ok THEN parallel_groups
        ELSE Ok([is_valid |-> valid[1],
                 error |-> IF ~valid[1] THEN valid[2] ELSE None,
                 graph |-> g,
                 execution_order |-> execution_order.value,
                 parallel_groups |-> parallel_groups.value,
                 total_operations |-> Len(ops),
                 dependencies |->
                     FoldLeft(LAMBDA d, op : DictPut(d, op.name, get_dependencies(g, op.name)),
                              EmptyDict, ops)])))))

----------------------------------------------------------------------------
(* core/orchestration/compiler.py *)

FlowDefinition(name, ops, hierarchy_path, hierarchy_level, is_standalone, parallel_groups, dependencies) ==
    [name |-> name, operations |-> ops, hierarchy_path |-> hierarchy_path,
     hierarchy_level |-> hierarchy_level, is_standalone |-> is_standalone,
     parallel_groups |-> parallel_groups, dependencies |-> dependencies]

has_operations(flow) == Len(flow.operations) > 0

(* has_cycle(node) nested in _has_circular_dependencies, over the local adj *)
RECURSIVE flow_has_cycle(_, _, _, _)
RECURSIVE flow_has_cycle_neighbors(_, _, _, _, _)

flow_has_cycle(adj, node, visited, rec_stack) ==
    With(flow_has_cycle_neighbors(adj, DictGet(adj, node, <<>>), 1,
                                  visited \cup {node}, rec_stack \cup {node}), LAMBDA r :
        IF r.cycle THEN r
        ELSE [cycle |-> FALSE, visited |-> r.visited, rec_stack |-> r.rec_stack \ {node}])

RECURSIVE flow_revisit_is_cycle(_, _, _, _, _)
flow_revisit_is_cycle(adj, neighbors, i, visited, rec_stack) ==
    \* the neighbor loop without the `in rec_stack` test: any revisit is a cycle
    IF i > Len(neighbors)
    THEN [cycle |-> FALSE, visited |-> visited, rec_stack |-> rec_stack]
    ELSE LET neighbor == neighbors[i]
         IN IF neighbor \notin visited
            THEN With(flow_has_cycle(adj, neighbor, visited, rec_stack), LAMBDA r :
                    IF r.cycle THEN r
                    ELSE flow_revisit_is_cycle(adj, neighbors, i + 1,
                                               r.visited, r.rec_stack))
            ELSE [cycle |-> TRUE, visited |-> visited, rec_stack |-> rec_stack]

flow_has_cycle_neighbors(adj, neighbors, i, visited, rec_stack) ==
    IF i > Len(neighbors)
    THEN [cycle |-> FALSE, visited |-> visited, rec_stack |-> rec_stack]
    ELSE LET neighbor == neighbors[i]
         IN IF neighbor \notin visited
            THEN With(flow_has_cycle(adj, neighbor, visited, rec_stack), LAMBDA r :
                    IF r.cycle THEN r
                    ELSE flow_has_cycle_neighbors(adj, neighbors, i + 1,
                                                  r.visited, r.rec_stack))
            ELSE IF neighbor \in rec_stack
            THEN [cycle |-> TRUE, visited |-> visited, rec_stack |-> rec_stack]
            ELSE flow_has_cycle_neighbors(adj, neighbors, i + 1, visited, rec_stack)

has_circular_dependencies_unrestricted(flow) ==
    \* the adjacency taken from flow.dependencies as it is, members or not
    With(flow.dependencies, LAMBDA adj :
        LET step(acc, node) ==
                IF acc.cycle THEN acc
                ELSE IF node \notin acc.visited
                THEN flow_has_cycle(adj, node, acc.visited, acc.rec_stack)
                ELSE acc
        IN FoldLeft(step, [cycle |-> FALSE, visited |-> {}, rec_stack |-> {}],
                    adj.keys).cycle)

has_circular_dependencies(flow) ==
    LET empty(acc, op) == DictPut(acc, op, <<>>)
        fill(acc, item) ==
            IF DictHas(acc, item[1])
            THEN DictPut(acc, item[1],
                         Filter(item[2], LAMBDA d : d \in Range(flow.operations)))
            ELSE acc
    IN With(FoldLeft(fill, FoldLeft(empty, EmptyDict, flow.operations),
                     DictItems(flow.dependencies)), LAMBDA adj :
        LET step(acc, node) ==
                IF acc.cycle THEN acc
                ELSE IF node \notin acc.visited
                THEN flow_has_cycle(adj, node, acc.visited, acc.rec_stack)
                ELSE acc
        IN FoldLeft(step, [cycle |-> FALSE, visited |-> {}, rec_stack |-> {}],
                    adj.keys).cycle)

can_execute(flow) == has_operations(flow) /\ ~has_circular_dependencies(flow)

Orchestration(flows, g, operation_metadata) ==
    [flows |-> flows, graph |-> g, operation_metadata |-> operation_metadata]

is_valid(orchestration) ==
    \A i \in 1..Len(orchestration.flows) : can_execute(orchestration.flows[i])

find_parallel_groups_singly(op_metadata) ==   \* every member a group of its own
    [i \in 1..Len(op_metadata) |-> <<op_metadata[i].name>>]

find_parallel_groups_newest_first(op_metadata) ==
    \* the greedy pass with every new group put in front of the list
    LET op_names == [i \in 1..Len(op_metadata) |-> op_metadata[i].name]
        outer(acc, i) ==
            LET op1 == op_metadata[i]
                inner(in, j) ==
                    LET op2 == op_metadata[j]
                    IN IF op2.name \in in.used THEN in
                       ELSE IF can_run_parallel_with(op1, op2)
                       THEN [group |-> Append(in.group, op2.name),
                             used |-> in.used \cup {op2.name}]
                       ELSE in
            IN IF op1.name \in acc.used THEN acc
               ELSE With(FoldLeft(inner,
                                  [group |-> <<op1.name>>,
                                   used |-> acc.used \cup {op1.name}],
                                  [k \in 1..(Len(op_metadata) - i) |-> i + k]),
                         LAMBDA done : [groups |-> <<done.group>> \o acc.groups,
                                        used |-> done.used])
    IN IF Len(op_names) <= 1
       THEN [i \in 1..Len(op_names) |-> <<op_names[i]>>]
       ELSE FoldLeft(outer, [groups |-> <<>>, used |-> {}],
                     [i \in 1..Len(op_metadata) |-> i]).groups

find_parallel_groups_in_flow(op_metadata) ==
    LET op_names == [i \in 1..Len(op_metadata) |-> op_metadata[i].name]
        outer(acc, i) ==
            LET op1 == op_metadata[i]
                inner(in, j) ==
                    LET op2 == op_metadata[j]
                    IN IF op2.name \in in.used THEN in
                       ELSE IF can_run_parallel_with(op1, op2)
                       THEN [group |-> Append(in.group, op2.name),
                             used |-> in.used \cup {op2.name}]
                       ELSE in
            IN IF op1.name \in acc.used THEN acc
               ELSE With(FoldLeft(inner,
                                  [group |-> <<op1.name>>,
                                   used |-> acc.used \cup {op1.name}],
                                  [k \in 1..(Len(op_metadata) - i) |-> i + k]),
                         LAMBDA done : [groups |-> Append(acc.groups, done.group),
                                        used |-> done.used])
    IN IF Len(op_names) <= 1
       THEN [i \in 1..Len(op_names) |-> <<op_names[i]>>]
       ELSE FoldLeft(outer, [groups |-> <<>>, used |-> {}],
                     [i \in 1..Len(op_metadata) |-> i]).groups

flow_dependencies_unfiltered(op_names, g) ==
    \* the loop without the `if d in op_names` filter
    LET one(dependencies, op) == DictPut(dependencies, op, get_dependencies(g, op))
    IN FoldLeft(one, EmptyDict, op_names)

flow_dependencies(op_names, g) ==   \* the `dependencies = {}` loop of both flow makers
    LET one(dependencies, op) ==
            DictPut(dependencies, op,
                    Filter(get_dependencies(g, op), LAMBDA d : d \in Range(op_names)))
    IN FoldLeft(one, EmptyDict, op_names)

flow_suffix == <<"_", "f", "l", "o", "w">>
standalones_flow ==
    <<"s", "t", "a", "n", "d", "a", "l", "o", "n", "e", "s">> \o flow_suffix

create_parent_flow_member_level(self_ops, parent, op_names, g) ==
    \* _create_parent_flow that takes the level of its first member
    LET flow_name == replace(parent, ".", <<"_">>) \o flow_suffix
        op_metadata == [i \in 1..Len(op_names) |-> self_ops.val[op_names[i]]]
    IN With(hierarchy_get_level(op_names[1]), LAMBDA hierarchy_level :
        IF ~hierarchy_level.ok THEN hierarchy_level
        ELSE Ok(FlowDefinition(flow_name, op_names, parent, hierarchy_level.value,
                               FALSE, find_parallel_groups_in_flow(op_metadata),
                               flow_dependencies(op_names, g))))

create_parent_flow(self_ops, parent, op_names, g) ==
    LET flow_name == replace(parent, ".", <<"_">>) \o flow_suffix
        op_metadata == [i \in 1..Len(op_names) |-> self_ops.val[op_names[i]]]
    IN With(hierarchy_get_level(parent), LAMBDA hierarchy_level :
        IF ~hierarchy_level.ok THEN hierarchy_level
        ELSE Ok(FlowDefinition(flow_name, op_names, parent, hierarchy_level.value,
                               FALSE, find_parallel_groups_in_flow(op_metadata),
                               flow_dependencies(op_names, g))))

create_standalone_flow(self_ops, op_names, g) ==
    LET op_metadata == [i \in 1..Len(op_names) |-> self_ops.val[op_names[i]]]
    IN Ok(FlowDefinition(standalones_flow, op_names, <<>>, 0, TRUE,
                         find_parallel_groups_in_flow(op_metadata),
                         flow_dependencies(op_names, g)))

create_flows_without_standalones(self_ops, ops, g) ==
    \* _create_flows that makes no flow for the operations without a parent
    LET make(flows, item) ==
            IF ~flows.ok \/ item[1] = None THEN flows
            ELSE With(create_parent_flow(self_ops, item[1], item[2], g), LAMBDA flow :
                    IF ~flow.ok THEN flow ELSE Ok(Append(flows.value, flow.value)))
    IN With(group_by_parent([i \in 1..Len(ops) |-> ops[i].name]), LAMBDA grouped :
        IF ~grouped.ok THEN grouped
        ELSE FoldLeft(make, Ok(<<>>), DictItems(grouped.value)))

create_flows_by_root(self_ops, ops, g) ==
    \* _create_flows over group_by_root style keys: one flow per first segment
    LET make(flows, item) ==
            IF ~flows.ok THEN flows
            ELSE With(IF item[1] = None
                      THEN create_standalone_flow(self_ops, item[2], g)
                      ELSE create_parent_flow(self_ops, item[1], item[2], g), LAMBDA flow :
                    IF ~flow.ok THEN flow ELSE Ok(Append(flows.value, flow.value)))
    IN With(group_by_root_key([i \in 1..Len(ops) |-> ops[i].name]), LAMBDA grouped :
        IF ~grouped.ok THEN grouped
        ELSE FoldLeft(make, Ok(<<>>), DictItems(grouped.value)))

create_flows(self_ops, ops, g) ==
    LET make(flows, item) ==
            IF ~flows.ok THEN flows
            ELSE With(IF item[1] = None
                      THEN create_standalone_flow(self_ops, item[2], g)
                      ELSE create_parent_flow(self_ops, item[1], item[2], g), LAMBDA flow :
                    IF ~flow.ok THEN flow ELSE Ok(Append(flows.value, flow.value)))
    IN With(group_by_parent([i \in 1..Len(ops) |-> ops[i].name]), LAMBDA grouped :
        IF ~grouped.ok THEN grouped
        ELSE FoldLeft(make, Ok(<<>>), DictItems(grouped.value)))

compile_unvalidated(h, self, ops) ==  \* compile without the validate_dataflow step
    LET put(d, op) == DictPut(d, op.name, op)
    IN With(FoldLeft(put, EmptyDict, ops), LAMBDA self_ops :
       With(build_dependency_graph(ops), LAMBDA g :
       With(create_flows(self_ops, ops, g), LAMBDA flows :
          [heap |-> Append(h, self_ops),
           self_operations |-> Len(h) + 1,
           ret |-> IF ~flows.ok THEN flows
                   ELSE Ok(Orchestration(flows.value, g, Len(h) + 1))])))

compile_registers_late(h, self, ops) ==
    \* compile that assigns self.operations after the flows are made, so that
    \* the flows are made from what the previous call registered
    LET put(d, op) == DictPut(d, op.name, op)
    IN With(FoldLeft(put, EmptyDict, ops), LAMBDA self_ops :
       With(build_dependency_graph(ops), LAMBDA g :
       With(IF \A i \in 1..Len(ops) : DictHas(h[self], ops[i].name)
            THEN create_flows(h[self], ops, g)
            ELSE [ok |-> FALSE, error |-> "KeyError", msg |-> ""], LAMBDA flows :
          [heap |-> Append(h, self_ops),
           self_operations |-> Len(h) + 1,
           ret |-> IF ~validate_dataflow(ops)[1] THEN ValueError("Invalid data flow")
                   ELSE IF ~flows.ok THEN flows
                   ELSE Ok(Orchestration(flows.value, g, Len(h) + 1))])))

compile_in_place(h, self, ops) ==
    \* compile that refills the dict the attribute is bound to
    \* (self.operations.clear(), then update) instead of binding a new one
    LET put(d, op) == DictPut(d, op.name, op)
    IN With(FoldLeft(put, EmptyDict, ops), LAMBDA self_ops :
       With(build_dependency_graph(ops), LAMBDA g :
       With(create_flows(self_ops, ops, g), LAMBDA flows :
          [heap |-> [h EXCEPT ![self] = self_ops],
           self_operations |-> self,
           ret |-> IF ~validate_dataflow(ops)[1] THEN ValueError("Invalid data flow")
                   ELSE IF ~flows.ok THEN flows
                   ELSE Ok(Orchestration(flows.value, g, self))])))

(* compile(operations) on the instance whose attribute is bound to the     *)
(* dict at `self`, the dicts made so far being h.  The dict comprehension  *)
(* makes a new dict, at the next address, and the attribute is bound to    *)
(* it; the Orchestration is given the attribute, that is the same dict.    *)
(* The result is the dicts afterwards, what the attribute is bound to, and *)
(* what the call returns or raises.                                        *)
compile(h, self, ops) ==
    LET put(d, op) == DictPut(d, op.name, op)
    IN With(FoldLeft(put, EmptyDict, ops), LAMBDA self_ops :
       With(build_dependency_graph(ops), LAMBDA g :
       With(create_flows(self_ops, ops, g), LAMBDA flows :
          [heap |-> Append(h, self_ops),
           self_operations |-> Len(h) + 1,
           ret |-> IF ~validate_dataflow(ops)[1] THEN ValueError("Invalid data flow")
                   ELSE IF ~flows.ok THEN flows
                   ELSE Ok(Orchestration(flows.value, g, Len(h) + 1))])))

compile_to_flows(h, self, ops) ==
    LET put(d, flow) == DictPut(d, flow.name, flow)   \* {flow.name: flow for flow in ...}
    IN With(compile(h, self, ops), LAMBDA c :
          [heap |-> c.heap,
           self_operations |-> c.self_operations,
           ret |-> IF ~c.ret.ok THEN c.ret
                   ELSE Ok(FoldLeft(put, EmptyDict, c.ret.value.flows))])

get_flow(orchestration, name) ==
    LET found == {i \in 1..Len(orchestration.flows) : orchestration.flows[i].name = name}
    IN IF found = {} THEN None
       ELSE orchestration.flows[CHOOSE i \in found : \A k \in found : i <= k]

----------------------------------------------------------------------------
(* sync_async.py: a function is what the detector reads of it, whether it  *)
(* is a coroutine function, its __name__ and its __doc__ (None or a text). *)

Function(coroutine, name, doc) == [coroutine |-> coroutine, name |-> name, doc |-> doc]

is_async(func) == func.coroutine     \* inspect.iscoroutinefunction(func)

is_sync(func) == ~is_async(func)

UpperCase == <<"A", "B", "C", "D", "E", "F", "G", "H", "I", "J", "K", "L", "M", 
              "N", "O", "P", "Q", "R", "S", "T", "U", "V", "W", "X", "Y", "Z">>

LowerCase == <<"a", "b", "c", "d", "e", "f", "g", "h", "i", "j", "k", "l", "m", 
              "n", "o", "p", "q", "r", "s", "t", "u", "v", "w", "x", "y", "z">>

lower(str) ==                \* str.lower()
    [i \in 1..Len(str) |->
        IF \E k \in 1..Len(UpperCase) : UpperCase[k] = str[i]
        THEN LowerCase[CHOOSE k \in 1..Len(UpperCase) : UpperCase[k] = str[i]]
        ELSE str[i]]

contains(str, sub) ==        \* sub in str
    \E i \in 0..(Len(str) - Len(sub)) : SubSeq(str, i + 1, i + Len(sub)) = sub

keywords == <<<<"c", "p", "u">>, <<"c", "o", "m", "p", "u", "t", "e">>,
              <<"p", "r", "o", "c", "e", "s", "s">>,
              <<"i", "n", "t", "e", "n", "s", "i", "v", "e">>>>

get_execution_strategy_by_name(func) ==   \* get_execution_strategy that reads the name only
    IF is_async(func) THEN "native_async"
    ELSE IF \E k \in 1..Len(keywords) : contains(lower(func.name), keywords[k])
    THEN "process_pool"
    ELSE "thread_pool"

get_execution_strategy(func) ==
    IF is_async(func) THEN "native_async"
    ELSE With(lower(func.name), LAMBDA name :
         With(lower(IF func.doc = None THEN <<>> ELSE func.doc), LAMBDA doc :
            IF \E k \in 1..Len(keywords) :
                  contains(name, keywords[k]) \/ contains(doc, keywords[k])
            THEN "process_pool"
            ELSE "thread_pool"))

----------------------------------------------------------------------------
(* Inputs *)

NamesOf(ops) == [i \in 1..Len(ops) |-> ops[i].name]

ListsUpTo(S, n) == UNION {[1..k -> S] : k \in 0..n}

(* What is registered for the analyzer: the name of an operation is fixed  *)
(* by its position, its inputs and outputs are any lists of models.        *)
IOPairs ==                   \* <<inputs, outputs>> of one operation
    {io \in ListsUpTo(Models, MaxIO) \X ListsUpTo(Models, MaxIO) :
        Len(io[1]) + Len(io[2]) <= MaxIO}

OpNames ==
    << <<"s", ".", "f">>, <<"s", ".", "m">>, <<"v">>, <<"s", ".", ".", "c">>,
       <<"s", ".", "t", ".", "f">>, <<"p", ".", "c">> >>

(* What is registered for the compiler: the i-th operation is named by a   *)
(* prefix and the i-th leaf, and reads and writes at most one model each.  *)
Leaves == <<"f", "m", "c", "a", "p", "v">>

(* the last prefix makes a name that parse rejects *)
Prefixes == {<<>>, <<"s", ".">>, <<"s", ".", "t", ".">>, <<"s", "-">>}

FlowIOPairs == ListsUpTo(1..NumFlowModels, 1) \X ListsUpTo(1..NumFlowModels, 1)

(* The same operations as registered earlier: the names of ops, each with  *)
(* the inputs and outputs of its successor in the list.                    *)
EarlierList(ops) ==
    [i \in 1..Len(ops) |->
        LET next == ops[(i % Len(ops)) + 1]
        IN OperationMetadata(ops[i].name, next.inputs, next.outputs)]

(* A list that does not compile: ops and one more operation, whose name    *)
(* parse rejects.                                                          *)
InvalidList(ops) == Append(ops, OperationMetadata(<<"s", "-", "z">>, <<>>, <<>>))

(* What is registered for the hierarchy parser: these names, without models *)
NamePool ==
    { <<"v">>, <<"a">>, <<"s", ".", "f">>, <<"s", ".", "m">>,
      <<"s", ".", ".", "c">>, <<"s", ".", "t", ".", "f">>, <<"p", ".", "c">>,
      <<"s", "-", "f">> }

(* The job pipeline: two fetches that write RawJobs, a merge that reads    *)
(* and writes it, a clean that reads it and writes CleanedJobs.            *)
RawJobs == 1
CleanedJobs == 2

scraping == <<"s", "c", "r", "a", "p", "i", "n", "g">>
stepstone == <<"s", "t", "e", "p", "s", "t", "o", "n", "e">>
linkedin == <<"l", "i", "n", "k", "e", "d", "i", "n">>
parsing == <<"p", "a", "r", "s", "i", "n", "g">>
fetch == <<"f", "e", "t", "c", "h">>
merge == <<"m", "e", "r", "g", "e">>
clean == <<"c", "l", "e", "a", "n">>

scraping_stepstone_fetch == scraping \o <<".">> \o stepstone \o <<".">> \o fetch
scraping_linkedin_fetch == scraping \o <<".">> \o linkedin \o <<".">> \o fetch
scraping_merge == scraping \o <<".">> \o merge
parsing_clean == parsing \o <<".">> \o clean

PipelineOperations ==
    << OperationMetadata(scraping_stepstone_fetch, <<>>, <<RawJobs>>),
       OperationMetadata(scraping_linkedin_fetch, <<>>, <<RawJobs>>),
       OperationMetadata(scraping_merge, <<RawJobs>>, <<RawJobs>>),
       OperationMetadata(parsing_clean, <<RawJobs>>, <<CleanedJobs>>) >>

(* A FlowDefinition made by hand: its operations are the first few of      *)
(* these names, its dependencies map has any of them as keys and in its    *)
(* lists, members or not.                                                  *)
FlowNames == [i \in 1..MaxMembers |-> <<Leaves[i]>>]

(* The members of one flow: the i-th is named by the i-th leaf and reads   *)
(* and writes at most one model each.                                      *)
FlowMemberLists ==
    UNION {{[i \in 1..k |-> OperationMetadata(FlowNames[i], io[i][1], io[i][2])] :
               io \in [1..k -> FlowIOPairs]} : k \in 0..MaxMembers}

MadeDependencies(choice) ==  \* choice[n]: the list under the key n, or None for no key
    LET put(d, n) == IF choice[n] = None THEN d ELSE DictPut(d, n, choice[n])
    IN FoldLeft(put, EmptyDict, FlowNames)

MadeFlow(ops, choice) ==
    FlowDefinition(standalones_flow, ops, <<>>, 0, TRUE, <<>>, MadeDependencies(choice))

(* Names whose parents differ and are written alike once the separator is *)
(* replaced, a parent named as the flow of the standalones is, and a        *)
(* standalone.                                                             *)
standalones == <<"s", "t", "a", "n", "d", "a", "l", "o", "n", "e", "s">>

AlikeNames ==
    { <<"s", ".", "t", ".", "f">>, <<"s", "_", "t", ".", "m">>, <<"s", ".", "a">>,
      standalones \o <<".", "c">>, <<"v">> }

AskedNames(orchestration) ==  \* the name of a flow, or a name no flow has
    {orchestration.flows[i].name : i \in 1..Len(orchestration.flows)}
        \cup {<<"x">> \o flow_suffix}

(* What find_children is called with: children and deeper descendants of  *)
(* "s.t" and of "s", written with one separator or two, a name that parse  *)
(* rejects, names that only begin like a parent, and the parents.          *)
ChildNames ==
    { <<"s", ".", "t", ".", "f">>, <<"s", ".", ".", "t", ".", "f">>,
      <<"s", ".", "t", ".", "m", ".", "a">>, <<"s", ".", "c">>,
      <<"s", "t", ".", "f">>, <<"s", ".", "t", ".", "-">>, <<"v">> }

ParentNames ==
    { <<"s">>, <<"s", ".", "t">>, <<"s", ".">>, <<"p">>, <<"v">>, <<"s", "-">> }

(* What a graph filled by hand is made of: any of these names is added as *)
(* an operation, or named in a dependency, or both, in any order.          *)
GraphNames == { <<"a">>, <<"x">>, <<"y">> }

(* What the detector is given: a function named with one or two of these  *)
(* words, some of them keywords in another case or pieces of a keyword,    *)
(* with no docstring, an empty one or one word of text.                    *)
Words ==
    { <<"c">>,
      <<"p", "u">>,
      <<"C", "P", "U">>,
      <<"C", "o", "m", "p", "u", "t", "e">>,
      <<"p", "r", "o", "c", "e", "s">>,
      <<"P", "r", "o", "c", "e", "s", "s">>,
      <<"I", "N", "T", "E", "N", "S", "I", "V", "E">>,
      <<"f", "e", "t", "c", "h">>,
      <<"i", "o", "_">> }

FunctionNames ==
    UNION {{Concat(ws) : ws \in [1..k -> Words]} : k \in 1..MaxWords}

Docstrings == {None, <<>>} \cup Words

Functions ==
    {Function(coroutine, name, doc) :
        coroutine \in BOOLEAN, name \in FunctionNames, doc \in Docstrings}

(* What the parser is called with: up to MaxTyped characters, then up to   *)
(* MaxDeepen further segments.                                             *)
TypedChars == {"a", "_", SEPARATOR, "-", eacute}

Deepen(k) == Concat([i \in 1..k |-> <<SEPARATOR, "a">>])

NoResult == [call |-> "none"]

Init ==                      \* nothing registered, a new graph, a new compiler
    /\ operations = <<>>
    /\ graph = DataFlowGraph
    /\ heap = <<EmptyDict>>      \* the `{}` of OrchestrationCompiler.__init__
    /\ self_operations = 1
    /\ returned = NoResult
    /\ result = NoResult

----------------------------------------------------------------------------
(* Calls *)

(* OperationRegistry.register, while the modules are imported, that is     *)
(* before anything is analysed; `operations` is OperationRegistry.list_all() *)
Register(name, inputs, outputs) ==
    /\ result = NoResult
    /\ name \notin Range(NamesOf(operations))
    /\ operations' = Append(operations, OperationMetadata(name, inputs, outputs))
    /\ UNCHANGED <<graph, self_operations, heap, returned, result>>

BuildDependencyGraph ==      \* graph = DataFlowAnalyzer.build_dependency_graph(ops)
    /\ graph' = build_dependency_graph(operations)
    /\ result' = [call |-> "build_dependency_graph"]
    /\ UNCHANGED <<operations, self_operations, heap, returned>>

Built == graph.operations.keys = NamesOf(operations)

HasCycle ==
    /\ Built
    /\ result' = [call |-> "has_cycle", ret |-> Ok(has_cycle(graph))]
    /\ UNCHANGED <<operations, graph, self_operations, heap, returned>>

TopologicalSort ==
    /\ Built
    /\ result' = [call |-> "topological_sort", ret |-> topological_sort(graph)]
    /\ UNCHANGED <<operations, graph, self_operations, heap, returned>>

FindParallelGroups ==
    /\ Built
    /\ result' = [call |-> "find_parallel_groups", ret |-> find_parallel_groups(graph)]
    /\ UNCHANGED <<operations, graph, self_operations, heap, returned>>

Analyze ==                   \* DataFlowAnalyzer.analyze(operations)
    /\ result' = [call |-> "analyze", ret |-> analyze(operations)]
    /\ UNCHANGED <<operations, graph, self_operations, heap, returned>>

GroupByParent ==
    /\ result' = [call |-> "group_by_parent",
                  ret |-> group_by_parent(NamesOf(operations))]
    /\ UNCHANGED <<operations, graph, self_operations, heap, returned>>

(* One compiler instance, whose caller compiles its list and the earlier  *)
(* list in turn.                                                           *)
Compile ==                   \* compiler.compile(operations)
    /\ result.call # "compile"
    /\ Len(heap) <= MaxCompiles
    /\ With(compile(heap, self_operations, operations), LAMBDA c :
          /\ heap' = c.heap
          /\ self_operations' = c.self_operations
          /\ result' = [call |-> "compile", after |-> result.call, ret |-> c.ret]
          /\ returned' = IF returned = NoResult THEN c.ret ELSE returned)
    /\ UNCHANGED <<operations, graph>>

CompileEarlier ==            \* compiler.compile(earlier list), in between
    /\ result.call = "compile"
    /\ Len(heap) <= MaxCompiles
    /\ With(compile(heap, self_operations, EarlierList(operations)), LAMBDA c :
          /\ heap' = c.heap
          /\ self_operations' = c.self_operations
          /\ result' = [call |-> "compile_earlier", after |-> result.call, ret |-> c.ret])
    /\ UNCHANGED <<operations, graph, returned>>

CompileInvalid ==            \* compiler.compile(a list that does not compile), in between
    /\ result.call = "compile"
    /\ Len(heap) <= MaxCompiles
    /\ With(compile(heap, self_operations, InvalidList(operations)), LAMBDA c :
          /\ heap' = c.heap
          /\ self_operations' = c.self_operations
          /\ result' = [call |-> "compile_invalid", after |-> result.call, ret |-> c.ret])
    /\ UNCHANGED <<operations, graph, returned>>

Parse(name) ==               \* HierarchyParser.parse(name) and the properties of its result
    /\ result = NoResult
    /\ With(parse(name), LAMBDA parsed :
          result' = [call |-> "parse", name |-> name, ret |-> parsed,
                     root |-> IF parsed.ok THEN root(parsed.value) ELSE None,
                     all_parents |-> IF parsed.ok THEN all_parents(parsed.value) ELSE None])
    /\ UNCHANGED <<operations, graph, self_operations, heap, returned>>

CanExecute(flow) ==          \* flow.can_execute
    /\ result = NoResult
    /\ result' = [call |-> "can_execute", flow |-> flow, ret |-> Ok(can_execute(flow))]
    /\ UNCHANGED <<operations, graph, self_operations, heap, returned>>

Next ==
    \/ /\ Len(operations) < MaxOps
       /\ \E io \in IOPairs : Register(OpNames[Len(operations) + 1], io[1], io[2])
    \/ BuildDependencyGraph
    \/ HasCycle
    \/ TopologicalSort
    \/ FindParallelGroups
    \/ Analyze

Spec == Init /\ [][Next]_vars

NextCompile ==
    \/ /\ Len(operations) < MaxFlowOps
       /\ \E prefix \in Prefixes, io \in FlowIOPairs :
             Register(prefix \o <<Leaves[Len(operations) + 1]>>, io[1], io[2])
    \/ Compile
    \/ CompileEarlier
    \/ CompileInvalid

SpecCompile == Init /\ [][NextCompile]_vars

(* The pipeline's modules are imported in any order, then compiled. *)
NextPipeline ==
    \/ \E i \in 1..Len(PipelineOperations) :
          Register(PipelineOperations[i].name, PipelineOperations[i].inputs,
                   PipelineOperations[i].outputs)
    \/ Compile
    \/ CompileEarlier

SpecPipeline == Init /\ [][NextPipeline]_vars

NextParse ==
    \E head \in ListsUpTo(TypedChars, MaxTyped), k \in 0..MaxDeepen :
        Parse(head \o Deepen(k))

SpecParse == Init /\ [][NextParse]_vars

NextFlow ==
    \E k \in 0..MaxMembers,
       choice \in [Range(FlowNames) -> {None} \cup ListsUpTo(Range(FlowNames), MaxDeps)] :
        CanExecute(MadeFlow(SubSeq(FlowNames, 1, k), choice))

SpecFlow == Init /\ [][NextFlow]_vars

NextNames ==
    \/ /\ Len(operations) < MaxNames
       /\ \E name \in NamePool : Register(name, <<>>, <<>>)
    \/ GroupByParent

SpecNames == Init /\ [][NextNames]_vars

CompileToFlows ==            \* compiler.compile_to_flows(operations)
    /\ result.call # "compile_to_flows"
    /\ Len(heap) <= MaxCompiles
    /\ With(compile_to_flows(heap, self_operations, operations), LAMBDA c :
          /\ heap' = c.heap
          /\ self_operations' = c.self_operations
          /\ result' = [call |-> "compile_to_flows", ret |-> c.ret])
    /\ UNCHANGED <<operations, graph, returned>>

GetFlow(name) ==             \* orchestration.get_flow(name), on what compile() returned
    /\ result.call = "compile"
    /\ result.ret.ok
    /\ result' = [call |-> "get_flow", orchestration |-> result.ret.value,
                  name |-> name, ret |-> get_flow(result.ret.value, name)]
    /\ UNCHANGED <<operations, graph, self_operations, heap, returned>>

NextFlowNames ==
    \/ /\ Len(operations) < MaxAlike
       /\ \E name \in AlikeNames : Register(name, <<>>, <<>>)
    \/ Compile
    \/ CompileToFlows
    \/ /\ result.call = "compile"
       /\ result.ret.ok
       /\ \E name \in AskedNames(result.ret.value) : GetFlow(name)

SpecFlowNames == Init /\ [][NextFlowNames]_vars

FindChildren(parent_name) == \* HierarchyParser.find_children(parent_name, names)
    /\ result.call # "find_children"
    /\ result' = [call |-> "find_children", parent_name |-> parent_name,
                  ret |-> find_children(parent_name, NamesOf(operations))]
    /\ UNCHANGED <<operations, graph, self_operations, heap, returned>>

NextChildren ==
    \/ /\ Len(operations) < MaxChildren
       /\ \E name \in ChildNames : Register(name, <<>>, <<>>)
    \/ \E parent_name \in ParentNames : FindChildren(parent_name)

SpecChildren == Init /\ [][NextChildren]_vars

AddOperation(name) ==        \* graph.add_operation(metadata)
    /\ graph' = add_operation(graph, OperationMetadata(name, <<>>, <<>>))
    /\ result' = [call |-> "add_operation"]
    /\ UNCHANGED <<operations, self_operations, heap, returned>>

AddDependency(source, target) ==   \* graph.add_dependency(source, target, data_models)
    /\ Len(graph.edges) < MaxEdges
    /\ graph' = add_dependency(graph, source, target, <<1>>)
    /\ result' = [call |-> "add_dependency"]
    /\ UNCHANGED <<operations, self_operations, heap, returned>>

GraphHasCycle ==             \* graph.has_cycle()
    /\ result' = [call |-> "has_cycle", ret |-> Ok(has_cycle(graph))]
    /\ UNCHANGED <<operations, graph, self_operations, heap, returned>>

GraphTopologicalSort ==      \* graph.topological_sort()
    /\ result' = [call |-> "topological_sort", ret |-> topological_sort(graph)]
    /\ UNCHANGED <<operations, graph, self_operations, heap, returned>>

NextGraph ==
    \/ \E name \in GraphNames : AddOperation(name)
    \/ \E source, target \in GraphNames : AddDependency(source, target)
    \/ GraphHasCycle
    \/ GraphTopologicalSort

SpecGraph == Init /\ [][NextGraph]_vars

IsAsync(func) ==             \* SyncAsyncDetector.is_async(func)
    /\ result = NoResult
    /\ result' = [call |-> "is_async", func |-> func, is_async |-> is_async(func)]
    /\ UNCHANGED <<operations, graph, self_operations, heap, returned>>

IsSync ==                    \* SyncAsyncDetector.is_sync(func), of the same function
    /\ result.call = "is_async"
    /\ result' = [call |-> "is_sync", func |-> result.func,
                  is_async |-> result.is_async, is_sync |-> is_sync(result.func)]
    /\ UNCHANGED <<operations, graph, self_operations, heap, returned>>

GetExecutionStrategy ==      \* SyncAsyncDetector.get_execution_strategy(func), of the same
    /\ result.call = "is_sync"
    /\ result' = [call |-> "get_execution_strategy", func |-> result.func,
                  is_async |-> result.is_async, is_sync |-> result.is_sync,
                  ret |-> get_execution_strategy(result.func)]
    /\ UNCHANGED <<operations, graph, self_operations, heap, returned>>

NextStrategy ==
    \/ \E func \in Functions : IsAsync(func)
    \/ IsSync
    \/ GetExecutionStrategy

SpecStrategy == Init /\ [][NextStrategy]_vars

----------------------------------------------------------------------------
(* What the results are compared with *)

Index(s, x) == CHOOSE i \in 1..Len(s) : s[i] = x

Count(s, x) == Cardinality({i \in 1..Len(s) : s[i] = x})

NoRepeats(s) == \A i, j \in 1..Len(s) : s[i] = s[j] => i = j

UniquelyNamed(ops) == NoRepeats(NamesOf(ops))

EdgeSet(g) == {<<g.edges[i].source, g.edges[i].target>> : i \in 1..Len(g.edges)}

Closure(E) ==                \* transitive closure of a finite relation
    LET f[k \in 0..Cardinality(E)] ==
            IF k = 0 THEN E
            ELSE f[k - 1] \cup
                 {<<q[1][1], q[2][2]>> : q \in {r \in f[k - 1] \X E : r[1][2] = r[2][1]}}
    IN f[Cardinality(E)]

HasDirectedCycle(E) == \E e \in Closure(E) : e[1] = e[2]

Max(S) == CHOOSE x \in S : \A y \in S : y <= x

RECURSIVE LevelOf(_, _)
LevelOf(E, n) ==             \* longest chain of edges of the acyclic E ending in n
    LET producers == {e[1] : e \in {d \in E : d[2] = n}}
    IN IF producers = {} THEN 0
       ELSE 1 + Max({LevelOf(E, p) : p \in producers})

(* producer -> consumer pairs as the data models define them *)
Feeds(ops) ==
    {<<ops[i].name, ops[j].name>> : <<i, j>> \in
        {ij \in (1..Len(ops)) \X (1..Len(ops)) :
            /\ ops[ij[1]].name # ops[ij[2]].name
            /\ Range(ops[ij[1]].outputs) \cap Range(ops[ij[2]].inputs) # {}}}

----------------------------------------------------------------------------
(* Properties of the analyzer (Spec) *)

(* C1: for uniquely named operations whose dependency graph has no cycle,  *)
(* topological_sort() returns every operation name exactly once, and every *)
(* producer at a strictly smaller index than each of its consumers.        *)
C1_TopologicalOrder ==
    (/\ result.call = "topological_sort"
     /\ UniquelyNamed(operations)
     /\ ~HasDirectedCycle(EdgeSet(graph)))
    => /\ result.ret.ok
       /\ Len(result.ret.value) = Len(operations)
       /\ Range(result.ret.value) = Range(NamesOf(operations))
       /\ \A e \in EdgeSet(graph) :
            Index(result.ret.value, e[1]) < Index(result.ret.value, e[2])

C1_Witness ==
    /\ result.call = "topological_sort"
    /\ result.ret.ok
    /\ Len(result.ret.value) = 3
    /\ Cardinality(EdgeSet(graph)) >= 2
    /\ result.ret.value # NamesOf(operations)

(* C2: has_cycle() on a graph made by build_dependency_graph is true       *)
(* exactly when its edges contain a directed cycle, wherever it lies.      *)
C2_HasCycleExact ==
    result.call = "has_cycle"
    => (result.ret.value <=> HasDirectedCycle(EdgeSet(graph)))

(* A(outputs=[X], inputs=[Y]), B(outputs=[Y], inputs=[X]) is cyclic. *)
C2_Witness ==
    /\ result.call = "has_cycle"
    /\ result.ret.value
    /\ Len(operations) = 2
    /\ operations[1].outputs = <<1>> /\ operations[1].inputs = <<2>>
    /\ operations[2].outputs = <<2>> /\ operations[2].inputs = <<1>>

(* C4: no edge has the same producer and consumer, and has_cycle() on the  *)
(* graph of a single operation that reads and writes one model is false.   *)
C4_NoSelfDependency ==
    /\ \A i \in 1..Len(graph.edges) : graph.edges[i].source # graph.edges[i].target
    /\ \A n \in Range(graph.operations.keys) :
          n \notin Range(get_dependencies(graph, n))
    /\ (result.call = "has_cycle" /\ Len(operations) = 1) => ~result.ret.value

C4_Witness ==
    /\ result.call = "has_cycle"
    /\ ~result.ret.value
    /\ Len(operations) = 1
    /\ operations[1].inputs = <<1>> /\ operations[1].outputs = <<1>>

(* C5: for uniquely named operations with duplicate-free inputs and        *)
(* outputs, the edges are the triples (P, C, M), P # C, M an output of P   *)
(* and an input of C, each once and labelled <<M>>; get_dependencies(C)    *)
(* contains P exactly when P # C and P outputs a model that C inputs.      *)
C5_EdgesExact ==
    (/\ result.call = "build_dependency_graph"
     /\ UniquelyNamed(operations)
     /\ \A i \in 1..Len(operations) :
          NoRepeats(operations[i].inputs) /\ NoRepeats(operations[i].outputs))
    => /\ \A i \in 1..Len(graph.edges) : Len(graph.edges[i].data_models) = 1
       /\ \A i, j \in 1..Len(operations) : \A m \in Models :
            Count(graph.edges, DependencyEdge(operations[i].name,
                                              operations[j].name, <<m>>))
            = IF /\ i # j
                 /\ m \in Range(operations[i].outputs)
                 /\ m \in Range(operations[j].inputs)
              THEN 1 ELSE 0
       /\ \A e \in EdgeSet(graph) : e \in Feeds(operations)
       /\ \A i, j \in 1..Len(operations) :
            operations[i].name \in Range(get_dependencies(graph, operations[j].name))
            <=> <<operations[i].name, operations[j].name>> \in Feeds(operations)

(* merge (third) depends on both fetch operations *)
C5_Witness ==
    /\ result.call = "build_dependency_graph"
    /\ Len(operations) = 3
    /\ operations[1].inputs = <<>> /\ operations[1].outputs = <<1>>
    /\ operations[2].inputs = <<>> /\ operations[2].outputs = <<1>>
    /\ operations[3].inputs = <<1>> /\ operations[3].outputs = <<1>>
    /\ get_dependencies(graph, operations[3].name)
         = <<operations[1].name, operations[2].name>>

(* C7: on an acyclic graph the i-th group of find_parallel_groups() is the *)
(* set of operations of level i (0 without dependencies, else 1 + the      *)
(* largest level of a dependency): every operation in exactly one group,   *)
(* no group empty, every producer in a strictly earlier group.             *)
C7_GroupsAreLevels ==
    (/\ result.call = "find_parallel_groups"
     /\ ~HasDirectedCycle(EdgeSet(graph)))
    => /\ result.ret.ok
       /\ LET groups == result.ret.value
              names == Range(graph.operations.keys)
              GroupOf(n) == CHOOSE i \in 1..Len(groups) : n \in Range(groups[i])
          IN /\ \A i \in 1..Len(groups) :
                  /\ groups[i] # <<>>
                  /\ NoRepeats(groups[i])
                  /\ Range(groups[i]) = {n \in names : LevelOf(EdgeSet(graph), n) = i - 1}
             /\ \A n \in names :
                  Cardinality({i \in 1..Len(groups) : n \in Range(groups[i])}) = 1
             /\ \A e \in EdgeSet(graph) : GroupOf(e[1]) < GroupOf(e[2])

(* two operations without inputs, with the same output, share a group *)
C7_Witness ==
    /\ result.call = "find_parallel_groups"
    /\ result.ret.ok
    /\ Len(operations) = 3
    /\ operations[1].inputs = <<>> /\ operations[1].outputs = <<1>>
    /\ operations[2].inputs = <<>> /\ operations[2].outputs = <<1>>
    /\ operations[3].inputs = <<1>> /\ operations[3].outputs = <<2>>
    /\ result.ret.value = << <<operations[1].name, operations[2].name>>,
                             <<operations[3].name>> >>

(* C30: every query finishes with a result or an error of its own,        *)
(* whether or not the graph has a cycle: has_cycle(), topological_sort()   *)
(* and find_parallel_groups() on the graph built from the registered       *)
(* operations, and analyze(), never recurse without bound.                 *)
C30_QueriesTerminate ==
    result.call \in {"has_cycle", "topological_sort", "find_parallel_groups", "analyze"} =>
        result.ret # RecursionError

----------------------------------------------------------------------------
(* Properties of the compiler (SpecCompile) *)

Compiled == result.call \in {"compile", "compile_earlier"}

CompiledList ==              \* the list the latest compile() was given
    IF result.call = "compile" THEN operations ELSE EarlierList(operations)

(* C3: when has_cycle() is true of the graph of the input, topological_sort() *)
(* raises and compile() raises and returns no Orchestration; when it is     *)
(* false, neither fails because of a cycle.                                 *)
C3_CycleIsFatal ==
    Compiled =>
        LET g == build_dependency_graph(CompiledList)
            sort == topological_sort(g)
        IN IF has_cycle(g)
           THEN ~sort.ok /\ ~result.ret.ok
           ELSE /\ sort.ok
                /\ result.ret.ok \/ result.ret.msg # "Invalid data flow"

C3_Witness ==
    /\ result.call = "compile"
    /\ ~result.ret.ok
    /\ result.ret.msg = "Invalid data flow"
    /\ Len(operations) = 3
    /\ has_cycle(build_dependency_graph(operations))

FlowView(flow) ==            \* what C6 compares of a flow
    <<flow.name, flow.operations, flow.parallel_groups, flow.dependencies>>

LocalEdges(flow) ==          \* dependency -> member pairs of flow.dependencies
    UNION {{<<d, op>> : d \in Range(flow.dependencies.val[op])} :
              op \in Range(flow.dependencies.keys)}

(* C9: every flow of a returned Orchestration has an operation and an      *)
(* acyclic flow-local dependency map, and is reported as executable.       *)
C9_FlowsExecutable ==
    (Compiled /\ result.ret.ok) =>
        /\ is_valid(result.ret.value)
        /\ \A i \in 1..Len(result.ret.value.flows) :
             LET flow == result.ret.value.flows[i]
             IN /\ Len(flow.operations) >= 1
                /\ ~HasDirectedCycle(LocalEdges(flow))
                /\ can_execute(flow)

C9_Witness ==
    /\ result.call = "compile"
    /\ result.ret.ok
    /\ \E i \in 1..Len(result.ret.value.flows) :
          LET flow == result.ret.value.flows[i]
          IN /\ Len(flow.operations) = 3
             /\ Cardinality(LocalEdges(flow)) = 3
             /\ can_execute(flow)

(* C10: the flows of a returned Orchestration partition the operations:     *)
(* each name is in exactly one flow, once; no flow is empty; a parent flow  *)
(* holds the operations whose parent is its hierarchy_path, the standalone  *)
(* flow holds those of depth 1, both in input order.                        *)
C10_FlowsPartition ==
    (Compiled /\ result.ret.ok) =>
        LET flows == result.ret.value.flows
            names == NamesOf(CompiledList)
        IN /\ \A i \in 1..Len(flows) :
                /\ flows[i].operations # <<>>
                /\ ~flows[i].is_standalone =>
                      flows[i].operations =
                        SelectSeq(names, LAMBDA n : get_parent(n).value = flows[i].hierarchy_path)
                /\ flows[i].is_standalone =>
                      /\ flows[i].name = standalones_flow
                      /\ flows[i].operations =
                           SelectSeq(names, LAMBDA n : hierarchy_get_level(n).value = 1)
           /\ \A k \in 1..Len(names) :
                /\ Cardinality({i \in 1..Len(flows) :
                                   names[k] \in Range(flows[i].operations)}) = 1
                /\ \A i \in 1..Len(flows) : Count(flows[i].operations, names[k]) <= 1

C10_Witness ==
    /\ result.call = "compile"
    /\ result.ret.ok
    /\ Len(operations) = 3
    /\ Len(result.ret.value.flows) = 2
    /\ result.ret.value.flows[1].operations = <<operations[1].name, operations[3].name>>
    /\ result.ret.value.flows[2].is_standalone
    /\ result.ret.value.flows[2].operations = <<operations[2].name>>

Depth(str) ==                \* number of non-empty fragments between the dots
    Cardinality({i \in 1..Len(str) : str[i] # "." /\ (i = 1 \/ str[i - 1] = ".")})

DistinctInOrder(s) ==        \* the values of s, each at its first appearance
    LET f[i \in 0..Len(s)] ==
            IF i = 0 THEN <<>>
            ELSE IF s[i] \in Range(f[i - 1]) THEN f[i - 1]
            ELSE Append(f[i - 1], s[i])
    IN f[Len(s)]

Underscored(str) == [k \in 1..Len(str) |-> IF str[k] = "." THEN "_" ELSE str[k]]

(* C11: a returned Orchestration has one flow per distinct parent of the   *)
(* input names, in order of first appearance: "standalones_flow" with      *)
(* level 0 and path "" for the names of depth 1; for a parent P the flow   *)
(* named P with dots as underscores plus "_flow", with path P and level     *)
(* depth(P), one less than the depth of each member.                       *)
C11_OneFlowPerParent ==
    (Compiled /\ result.ret.ok) =>
        LET flows == result.ret.value.flows
            names == NamesOf(CompiledList)
            parents == DistinctInOrder([k \in 1..Len(names) |-> get_parent(names[k]).value])
        IN /\ Len(flows) = Len(parents)
           /\ \A i \in 1..Len(flows) :
                IF parents[i] = None
                THEN /\ flows[i].name = standalones_flow
                     /\ flows[i].hierarchy_level = 0
                     /\ flows[i].hierarchy_path = <<>>
                ELSE /\ flows[i].name = Underscored(parents[i]) \o flow_suffix
                     /\ flows[i].hierarchy_path = parents[i]
                     /\ flows[i].hierarchy_level = Depth(parents[i])
                     /\ \A k \in 1..Len(flows[i].operations) :
                          Depth(flows[i].operations[k]) = flows[i].hierarchy_level + 1

(* s.t.f, m, s.c: flows s_t_flow (level 2), standalones_flow, s_flow (level 1) *)
C11_Witness ==
    /\ result.call = "compile"
    /\ result.ret.ok
    /\ Len(result.ret.value.flows) = 3
    /\ result.ret.value.flows[1].name = <<"s", "_", "t">> \o flow_suffix
    /\ result.ret.value.flows[1].hierarchy_level = 2
    /\ result.ret.value.flows[2].name = standalones_flow
    /\ result.ret.value.flows[3].name = <<"s">> \o flow_suffix
    /\ result.ret.value.flows[3].hierarchy_level = 1

(* C12: in every flow of a returned Orchestration the keys of dependencies *)
(* are the members of the flow, and the dependencies listed for a member   *)
(* are its global dependencies that are members of the same flow: its      *)
(* producers among the members, none from outside and none left out.       *)
C12_FlowLocalDependencies ==
    (Compiled /\ result.ret.ok) =>
        \A i \in 1..Len(result.ret.value.flows) :
            LET flow == result.ret.value.flows[i]
                members == Range(flow.operations)
            IN /\ flow.dependencies.keys = flow.operations
               /\ \A op \in members :
                    /\ Range(flow.dependencies.val[op]) =
                         Range(get_dependencies(result.ret.value.graph, op)) \cap members
                    /\ Range(flow.dependencies.val[op]) =
                         {p \in members : <<p, op>> \in Feeds(CompiledList)}

(* a member with one producer inside its flow and another outside of it *)
C12_Witness ==
    /\ result.call = "compile"
    /\ result.ret.ok
    /\ \E i \in 1..Len(result.ret.value.flows) :
          LET flow == result.ret.value.flows[i]
          IN \E op \in Range(flow.operations) :
                /\ flow.dependencies.val[op] # <<>>
                /\ Range(get_dependencies(result.ret.value.graph, op))
                      \ Range(flow.operations) # {}

(* C14: in a returned Orchestration no two operations of one parallel     *)
(* group are connected in the global graph, by an edge or by a path, in    *)
(* either direction.                                                       *)
C14_GroupsUnordered ==
    (Compiled /\ result.ret.ok) =>
        LET orchestration == result.ret.value
            paths == Closure(EdgeSet(orchestration.graph)) \cup Closure(Feeds(CompiledList))
        IN \A i \in 1..Len(orchestration.flows) :
              \A k \in 1..Len(orchestration.flows[i].parallel_groups) :
                 LET group == orchestration.flows[i].parallel_groups[k]
                 IN \A a, b \in 1..Len(group) :
                       a # b => <<group[a], group[b]>> \notin paths

(* two operations in one group, in a graph that has a path of two edges *)
C14_Witness ==
    /\ result.call = "compile"
    /\ result.ret.ok
    /\ Len(operations) = 3
    /\ Cardinality(EdgeSet(result.ret.value.graph)) >= 2
    /\ \E i \in 1..Len(result.ret.value.flows) :
          \E k \in 1..Len(result.ret.value.flows[i].parallel_groups) :
             Len(result.ret.value.flows[i].parallel_groups[k]) = 2

Rejected(names) == {i \in 1..Len(names) : ~parse(names[i]).ok}

(* C16: when parse rejects a name of the input list and the data flow has  *)
(* no cycle, compile() raises the error of the first rejected name and     *)
(* returns no Orchestration.                                               *)
C16_NameErrorPropagates ==
    (/\ Compiled
     /\ Rejected(NamesOf(CompiledList)) # {}
     /\ ~HasDirectedCycle(Feeds(CompiledList)))
    => LET names == NamesOf(CompiledList)
           first == CHOOSE i \in Rejected(names) : \A j \in Rejected(names) : i <= j
       IN /\ ~result.ret.ok
          /\ result.ret = parse(names[first])
          /\ result.ret.error = "ValueError"
          /\ result.ret.msg # "Invalid data flow"

(* f, s-m, c with f feeding c: the second name stops the compilation *)
C16_Witness ==
    /\ result.call = "compile"
    /\ Len(operations) = 3
    /\ parse(operations[1].name).ok
    /\ ~parse(operations[2].name).ok
    /\ parse(operations[3].name).ok
    /\ Feeds(operations) # {}
    /\ ~HasDirectedCycle(Feeds(operations))
    /\ ~result.ret.ok
    /\ result.ret.msg = "Operation name must contain only alphanumeric, dots, and underscores"

SameIO(a, b) ==              \* equal input sets and equal output sets
    Range(a.inputs) = Range(b.inputs) /\ Range(a.outputs) = Range(b.outputs)

Named(ops, name) == CHOOSE op \in Range(ops) : op.name = name

(* C22: in every returned flow the parallel groups are those of the greedy *)
(* pass: they partition the members; the founder of a group is the first   *)
(* member no earlier group holds, and the group holds beside it exactly    *)
(* the later members no earlier group holds that can run in parallel with  *)
(* the founder; groups stand in founder order, members in original order;  *)
(* a flow of one member has the one group of that member.                  *)
C22_GreedyGroups ==
    (Compiled /\ result.ret.ok) =>
        \A f \in 1..Len(result.ret.value.flows) :
            LET members == result.ret.value.flows[f].operations
                groups == result.ret.value.flows[f].parallel_groups
                pos(n) == Index(members, n)
                claimed(k) == UNION {Range(groups[j]) : j \in 1..(k - 1)}
                op(n) == Named(CompiledList, n)
            IN /\ \A n \in Range(members) :
                    Cardinality({ki \in (1..Len(groups)) \X (1..Len(members)) :
                                   /\ ki[2] <= Len(groups[ki[1]])
                                   /\ groups[ki[1]][ki[2]] = n}) = 1
               /\ \A k \in 1..Len(groups) :
                    /\ groups[k] # <<>>
                    /\ Range(groups[k]) \subseteq Range(members) \ claimed(k)
                    /\ \A n \in Range(members) \ claimed(k) : pos(groups[k][1]) <= pos(n)
                    /\ Range(groups[k]) =
                         {n \in Range(members) \ claimed(k) :
                             \/ n = groups[k][1]
                             \/ /\ pos(n) > pos(groups[k][1])
                                /\ can_run_parallel_with(op(groups[k][1]), op(n))}
                    /\ \A i, j \in 1..Len(groups[k]) :
                          i < j => pos(groups[k][i]) < pos(groups[k][j])
               /\ \A k, l \in 1..Len(groups) :
                    k < l => pos(groups[k][1]) < pos(groups[l][1])
               /\ Len(members) = 1 => groups = <<members>>

(* three members: the first and the third in one group, the second after it *)
C22_Witness ==
    /\ result.call = "compile"
    /\ result.ret.ok
    /\ \E f \in 1..Len(result.ret.value.flows) :
          LET flow == result.ret.value.flows[f]
          IN /\ Len(flow.operations) = 3
             /\ flow.parallel_groups =
                   << <<flow.operations[1], flow.operations[3]>>, <<flow.operations[2]>> >>

(* some group holds two members that cannot run in parallel *)
HasMixedGroup(groups, ops) ==
    \E k \in 1..Len(groups) :
        \E a, b \in Range(groups[k]) :
            ~can_run_parallel_with(Named(ops, a), Named(ops, b))

(* C23 as stated: there is an input, the list just compiled or any list of *)
(* flow members, for which the greedy pass returns a group with two        *)
(* members that cannot run in parallel with each other.                    *)
C23_SomeGroupIsMixed ==
    \/ /\ Compiled
       /\ result.ret.ok
       /\ \E f \in 1..Len(result.ret.value.flows) :
             HasMixedGroup(result.ret.value.flows[f].parallel_groups, CompiledList)
    \/ \E op_metadata \in FlowMemberLists :
          HasMixedGroup(find_parallel_groups_in_flow(op_metadata), op_metadata)

(* C23, amended: in every returned flow every two members of a parallel    *)
(* group can run in parallel with each other, in both directions, not only *)
(* with the founder of the group.                                          *)
C23_GroupMembersMutuallyParallel ==
    (Compiled /\ result.ret.ok) =>
        \A f \in 1..Len(result.ret.value.flows) :
            LET groups == result.ret.value.flows[f].parallel_groups
            IN \A k \in 1..Len(groups) :
                  \A a, b \in Range(groups[k]) :
                     can_run_parallel_with(Named(CompiledList, a), Named(CompiledList, b))

(* a founder has absorbed two later members, each compared with it alone *)
C23_Witness ==
    /\ result.call = "compile"
    /\ result.ret.ok
    /\ \E f \in 1..Len(result.ret.value.flows) :
          \E k \in 1..Len(result.ret.value.flows[f].parallel_groups) :
             Len(result.ret.value.flows[f].parallel_groups[k]) = 3

GroupOf(groups, n) == CHOOSE k \in 1..Len(groups) : n \in Range(groups[k])

(* C24: in every returned flow the parallel groups stand in an order that  *)
(* the flow-local dependencies allow: when member c has the flow-local     *)
(* dependency p, the group of p stands strictly before the group of c.     *)
C24_GroupsFollowDependencies ==
    (Compiled /\ result.ret.ok) =>
        \A f \in 1..Len(result.ret.value.flows) :
            LET flow == result.ret.value.flows[f]
            IN \A c \in Range(flow.operations) :
                  \A p \in Range(DictGet(flow.dependencies, c, <<>>)) :
                     GroupOf(flow.parallel_groups, p) < GroupOf(flow.parallel_groups, c)

(* C29: the parallel groups of a returned flow are the classes of "equal   *)
(* input sets and equal output sets" among the members of the flow: two    *)
(* members are in one group exactly when they have the same input set and  *)
(* the same output set, so no two members of different groups can run in   *)
(* parallel.                                                               *)
C29_GroupsAreClasses ==
    (Compiled /\ result.ret.ok) =>
        \A f \in 1..Len(result.ret.value.flows) :
            LET flow == result.ret.value.flows[f]
            IN \A a, b \in Range(flow.operations) :
                  (GroupOf(flow.parallel_groups, a) = GroupOf(flow.parallel_groups, b))
                     <=> SameIO(Named(CompiledList, a), Named(CompiledList, b))

(* a member alone in the first group, the two after it together in the next *)
C29_Witness ==
    /\ result.call = "compile"
    /\ result.ret.ok
    /\ \E f \in 1..Len(result.ret.value.flows) :
          LET flow == result.ret.value.flows[f]
          IN /\ Len(flow.operations) = 3
             /\ flow.parallel_groups =
                   << <<flow.operations[1]>>, <<flow.operations[2], flow.operations[3]>> >>

(* C20: a compile() changes neither its input list nor the descriptors in *)
(* it, and once an Orchestration has been returned, every later compile()  *)
(* on the same instance, returning or raising, leaves its flows, its graph *)
(* and the dict that is its operation index as they were.                  *)
C20_EarlierResultUnchanged ==
    [][/\ result' # result => operations' = operations
       /\ (returned # NoResult /\ returned.ok) =>
             /\ returned' = returned
             /\ heap'[returned.value.operation_metadata]
                  = heap[returned.value.operation_metadata]
       /\ (Compiled /\ result.ret.ok) =>
             heap'[result.ret.value.operation_metadata]
               = heap[result.ret.value.operation_metadata]]_vars

(* the later call raised, after binding the attribute to another dict; the *)
(* index of the first Orchestration still maps the names of its list       *)
C20_Witness ==
    /\ result.call = "compile_invalid"
    /\ ~result.ret.ok
    /\ returned # NoResult
    /\ returned.ok
    /\ Len(operations) = 2
    /\ self_operations # returned.value.operation_metadata
    /\ heap[self_operations] # heap[returned.value.operation_metadata]
    /\ heap[returned.value.operation_metadata].keys = NamesOf(operations)

----------------------------------------------------------------------------
(* Properties of the compiled job pipeline (SpecPipeline) *)

PipelineCompiled == result.call = "compile" /\ operations = PipelineOperations

(* C13 as stated: the pipeline compiles to a scraping flow that holds the  *)
(* three scraping operations, the two fetches in one parallel group and    *)
(* merge alone in a later group, and a parsing flow that holds clean alone. *)
C13_ScrapingFlowHoldsThree ==
    PipelineCompiled =>
        /\ result.ret.ok
        /\ \E i \in 1..Len(result.ret.value.flows) :
              LET flow == result.ret.value.flows[i]
              IN /\ Range(flow.operations) =
                      {scraping_stepstone_fetch, scraping_linkedin_fetch, scraping_merge}
                 /\ \E a, b \in 1..Len(flow.parallel_groups) :
                       /\ a < b
                       /\ Range(flow.parallel_groups[a]) =
                            {scraping_stepstone_fetch, scraping_linkedin_fetch}
                       /\ flow.parallel_groups[b] = <<scraping_merge>>
        /\ \E j \in 1..Len(result.ret.value.flows) :
              result.ret.value.flows[j].operations = <<parsing_clean>>

FlowMembers(flow) == <<flow.name, flow.hierarchy_path, flow.operations, flow.parallel_groups>>

(* C13, amended: the pipeline compiles to four flows, one per immediate    *)
(* parent, in this order: scraping_stepstone_flow with                     *)
(* scraping.stepstone.fetch, scraping_linkedin_flow with                   *)
(* scraping.linkedin.fetch, scraping_flow with scraping.merge and          *)
(* parsing_flow with parsing.clean, each operation alone in the only       *)
(* parallel group of its flow.                                             *)
C13_PipelineFlows ==
    PipelineCompiled =>
        /\ result.ret.ok
        /\ [i \in 1..Len(result.ret.value.flows) |-> FlowMembers(result.ret.value.flows[i])]
             = << <<scraping \o <<"_">> \o stepstone \o flow_suffix,
                    scraping \o <<".">> \o stepstone,
                    <<scraping_stepstone_fetch>>, <<<<scraping_stepstone_fetch>>>> >>,
                  <<scraping \o <<"_">> \o linkedin \o flow_suffix,
                    scraping \o <<".">> \o linkedin,
                    <<scraping_linkedin_fetch>>, <<<<scraping_linkedin_fetch>>>> >>,
                  <<scraping \o flow_suffix, scraping,
                    <<scraping_merge>>, <<<<scraping_merge>>>> >>,
                  <<parsing \o flow_suffix, parsing,
                    <<parsing_clean>>, <<<<parsing_clean>>>> >> >>

C13_Witness ==
    /\ PipelineCompiled
    /\ result.ret.ok
    /\ Len(result.ret.value.flows) = 4
    /\ Cardinality(EdgeSet(result.ret.value.graph)) = 5

----------------------------------------------------------------------------
(* Properties of parse (SpecParse) *)

Parsed == result.call = "parse"

AsciiNameChars == Letters \cup Digits \cup {"_", "."}

(* C17: parse fails exactly when the name is empty, or has a character     *)
(* outside [A-Za-z0-9_.], or has no non-empty segment, or has more than 10 *)
(* non-empty segments; every other name is accepted, names whose segments  *)
(* are made of underscores only included.                                  *)
C17_RejectsExactly ==
    Parsed =>
        (~result.ret.ok <=>
            \/ result.name = <<>>
            \/ \E i \in 1..Len(result.name) : result.name[i] \notin AsciiNameChars
            \/ Depth(result.name) = 0
            \/ Depth(result.name) > 10)

PassesCharacterTest(str) ==  \* what the tests of parse before the depth test let through
    /\ \A i \in 1..Len(str) : str[i] \in Letters \cup Digits \cup UnicodeLetters \cup {"_", "."}
    /\ \E i \in 1..Len(str) : str[i] \in Letters \cup Digits \cup UnicodeLetters

(* C18: the depth limit is 10: a name that passes the other tests of parse *)
(* is accepted with level 10 when it has 10 non-empty segments, a name     *)
(* with 11 or more is rejected, and every accepted name has a level from   *)
(* 1 to 10.                                                                *)
C18_DepthLimit ==
    Parsed =>
        /\ (Depth(result.name) = 10 /\ PassesCharacterTest(result.name))
              => (result.ret.ok /\ result.ret.value.level = 10)
        /\ Depth(result.name) >= 11 => ~result.ret.ok
        /\ result.ret.ok =>
              (1 <= result.ret.value.level /\ result.ret.value.level <= 10)

(* a name of 10 segments, with a doubled dot among them *)
C18_Witness ==
    /\ Parsed
    /\ Depth(result.name) = 10
    /\ Len(result.name) > 19
    /\ result.ret.ok
    /\ result.ret.value.level = 10

SortedSeq(S) ==              \* the numbers of S in increasing order
    LET f[k \in 0..Cardinality(S)] ==
            IF k = 0 THEN <<>>
            ELSE Append(f[k - 1], CHOOSE x \in S : Cardinality({y \in S : y < x}) = k - 1)
    IN f[Cardinality(S)]

Fragments(str) ==            \* the maximal dot-free pieces of str, in order
    LET starts == {i \in 1..Len(str) : str[i] # "." /\ (i = 1 \/ str[i - 1] = ".")}
        end(i) == CHOOSE j \in i..Len(str) :
                     /\ \A k \in i..j : str[k] # "."
                     /\ (j = Len(str) \/ str[j + 1] = ".")
        first == SortedSeq(starts)
    IN [k \in 1..Len(first) |-> SubSeq(str, first[k], end(first[k]))]

RECURSIVE Dotted(_)
Dotted(parts) ==             \* the pieces with one dot between neighbours
    IF Len(parts) = 1 THEN parts[1]
    ELSE Dotted(SubSeq(parts, 1, Len(parts) - 1)) \o <<".">> \o parts[Len(parts)]

(* C19: for an accepted name, hierarchy lists its non-empty fragments in   *)
(* order (empty ones between doubled dots are dropped), level is their     *)
(* number, step the last and root the first; is_standalone holds iff level *)
(* is 1 iff parent is None; otherwise parent is the dot-join of all but    *)
(* the last segment; all_parents lists the level-1 strict prefixes from    *)
(* the root on, the parent last.                                           *)
C19_FieldsConsistent ==
    (Parsed /\ result.ret.ok) =>
        LET p == result.ret.value
            segments == Fragments(result.name)
        IN /\ p.full_name = result.name
           /\ p.hierarchy = segments
           /\ p.level = Len(segments)
           /\ p.level >= 1
           /\ p.step = segments[Len(segments)]
           /\ result.root = segments[1]
           /\ p.is_standalone <=> p.level = 1
           /\ p.is_standalone <=> p.parent = None
           /\ ~p.is_standalone =>
                 p.parent = Dotted(SubSeq(segments, 1, Len(segments) - 1))
           /\ Len(result.all_parents) = p.level - 1
           /\ \A i \in 1..Len(result.all_parents) :
                 result.all_parents[i] = Dotted(SubSeq(segments, 1, i))
           /\ ~p.is_standalone => result.all_parents[p.level - 1] = p.parent

(* "a..a.a" parses like "a.a.a": parent "a.a", all_parents "a", "a.a" *)
C19_Witness ==
    /\ Parsed
    /\ result.name = <<"a", ".", ".", "a", ".", "a">>
    /\ result.ret.ok
    /\ result.ret.value.hierarchy = << <<"a">>, <<"a">>, <<"a">> >>
    /\ result.ret.value.parent = <<"a", ".", "a">>
    /\ result.root = <<"a">>
    /\ result.all_parents = << <<"a">>, <<"a", ".", "a">> >>

----------------------------------------------------------------------------
(* Properties of can_execute (SpecFlow) *)

MemberEdges(flow) ==         \* member -> listed dependency, both members of the flow
    {e \in LocalEdges(flow) :
        e[1] \in Range(flow.operations) /\ e[2] \in Range(flow.operations)}

(* C15: can_execute returns, without raising, true exactly when the flow   *)
(* has an operation and the graph of its dependencies map restricted to    *)
(* member keys and member dependencies has no cycle, a member listed as    *)
(* its own dependency being a cycle.                                       *)
C15_CanExecuteExact ==
    result.call = "can_execute" =>
        /\ result.ret.ok
        /\ result.ret.value <=>
              /\ Len(result.flow.operations) >= 1
              /\ ~HasDirectedCycle(MemberEdges(result.flow))
        /\ (\E n \in Range(result.flow.operations) : <<n, n>> \in MemberEdges(result.flow))
              => ~result.ret.value

(* members f and m with an edge between them; the only cycle of the map  *)
(* runs through c, which is no member: executable                        *)
C15_Witness ==
    /\ result.call = "can_execute"
    /\ result.ret.value
    /\ Range(result.flow.operations) = {<<"f">>, <<"m">>}
    /\ HasDirectedCycle(LocalEdges(result.flow))
    /\ MemberEdges(result.flow) # {}

----------------------------------------------------------------------------
(* Properties of the flow names (SpecFlowNames) *)

(* C26: the flows of a returned Orchestration have different names, and    *)
(* only the flow of the standalones is named "standalones_flow"; so        *)
(* compile_to_flows() returns one entry for each flow of compile() and     *)
(* every input operation is a member of a flow of that dictionary, and     *)
(* get_flow(name) finds the only flow of that name.                        *)
C26_FlowNamesUnique ==
    /\ (result.call = "compile" /\ result.ret.ok) =>
          LET flows == result.ret.value.flows
          IN /\ \A i, j \in 1..Len(flows) : flows[i].name = flows[j].name => i = j
             /\ \A i \in 1..Len(flows) :
                   flows[i].name = standalones_flow => flows[i].is_standalone
    /\ (result.call = "compile_to_flows" /\ result.ret.ok) =>
          LET flows == compile(heap, self_operations, operations).ret.value.flows
              byName == result.ret.value
          IN /\ Len(byName.keys) = Len(flows)
             /\ \A i \in 1..Len(operations) :
                   \E name \in Range(byName.keys) :
                      operations[i].name \in Range(byName.val[name].operations)
    /\ result.call = "get_flow" =>
          Cardinality({i \in 1..Len(result.orchestration.flows) :
                          result.orchestration.flows[i].name = result.name}) <= 1

----------------------------------------------------------------------------
(* Properties of the execution strategy (SpecStrategy) *)

(* the letter a of a text is the letter b of a keyword, in either case *)
SameLetter(a, b) ==
    \/ a = b
    \/ \E k \in 1..Len(LowerCase) : LowerCase[k] = b /\ UpperCase[k] = a

(* a keyword stands in the text at some place, in any mixture of cases *)
Hints(text) ==
    \E word \in { <<"c", "p", "u">>,
                  <<"c", "o", "m", "p", "u", "t", "e">>,
                  <<"p", "r", "o", "c", "e", "s", "s">>,
                  <<"i", "n", "t", "e", "n", "s", "i", "v", "e">> } :
        \E at \in 1..Len(text) :
            /\ at + Len(word) - 1 <= Len(text)
            /\ \A k \in 1..Len(word) : SameLetter(text[at + k - 1], word[k])

(* C21: get_execution_strategy returns native_async for every coroutine    *)
(* function, whatever its name and docstring; for any other function it    *)
(* returns process_pool exactly when cpu, compute, process or intensive    *)
(* stands in its name or its docstring, in any case, and thread_pool       *)
(* otherwise; and exactly one of is_async and is_sync holds of a function. *)
C21_Strategy ==
    /\ result.call = "get_execution_strategy" =>
          LET func == result.func
              hinted == Hints(func.name) \/ (func.doc # None /\ Hints(func.doc))
          IN /\ func.coroutine => result.ret = "native_async"
             /\ (~func.coroutine /\ hinted) => result.ret = "process_pool"
             /\ (~func.coroutine /\ ~hinted) => result.ret = "thread_pool"
    /\ result.call \in {"is_sync", "get_execution_strategy"} =>
          result.is_async # result.is_sync

(* a function that is not a coroutine, with the hint in its docstring only, *)
(* in capitals                                                              *)
C21_Witness ==
    /\ result.call = "get_execution_strategy"
    /\ ~result.func.coroutine
    /\ result.func.name = <<"f", "e", "t", "c", "h">>
    /\ result.func.doc = <<"I", "N", "T", "E", "N", "S", "I", "V", "E">>
    /\ result.ret = "process_pool"
    /\ result.is_sync

----------------------------------------------------------------------------
(* Properties of the hierarchy parser (SpecNames) *)

AllValid(names) == \A i \in 1..Len(names) : parse(names[i]).ok

FirstWithParent(names, key) ==
    CHOOSE i \in 1..Len(names) :
        /\ get_parent(names[i]).value = key
        /\ \A j \in 1..(i - 1) : get_parent(names[j]).value # key

(* C8: group_by_parent of valid names partitions them: the group under a   *)
(* key lists, in input order, the names whose parent is the key (None at   *)
(* depth 1), and the keys stand in order of first appearance.              *)
C8_GroupByParent ==
    (result.call = "group_by_parent" /\ AllValid(NamesOf(operations))) =>
        /\ result.ret.ok
        /\ LET groups == result.ret.value
               names == NamesOf(operations)
           IN /\ NoRepeats(groups.keys)
              /\ \A i \in 1..Len(names) : DictHas(groups, get_parent(names[i]).value)
              /\ \A i \in 1..Len(groups.keys) :
                   /\ groups.val[groups.keys[i]] # <<>>
                   /\ groups.val[groups.keys[i]] =
                        SelectSeq(names, LAMBDA n : get_parent(n).value = groups.keys[i])
              /\ \A i, j \in 1..Len(groups.keys) :
                   i < j => FirstWithParent(names, groups.keys[i])
                              < FirstWithParent(names, groups.keys[j])

(* s.t.f, s.m, v: groups s.t, s and None, one name each *)
C8_Witness ==
    /\ result.call = "group_by_parent"
    /\ NamesOf(operations) = << <<"s", ".", "t", ".", "f">>, <<"s", ".", "m">>, <<"v">> >>
    /\ result.ret.ok
    /\ result.ret.value.keys = << <<"s", ".", "t">>, <<"s">>, None >>
    /\ result.ret.value.val[None] = << <<"v">> >>

----------------------------------------------------------------------------
(* Properties of a graph filled by hand (SpecGraph) *)

(* C27: whatever add_operation and add_dependency calls made the graph,    *)
(* has_cycle() returns true exactly when the recorded edges contain a      *)
(* directed cycle, and topological_sort() returns an order only when they  *)
(* contain none.                                                           *)
C27_CycleIsFound ==
    /\ result.call = "has_cycle" =>
          (result.ret.value <=> HasDirectedCycle(EdgeSet(graph)))
    /\ (result.call = "topological_sort" /\ result.ret.ok) =>
          ~HasDirectedCycle(EdgeSet(graph))

(* the two maps of g mirror each other and the edge list, and hold every name *)
MapsAgree(g) ==
    LET named == Range(g.operations.keys)
                    \cup {g.edges[i].source : i \in 1..Len(g.edges)}
                    \cup {g.edges[i].target : i \in 1..Len(g.edges)}
        edges(p, c) == {i \in 1..Len(g.edges) :
                           g.edges[i].source = p /\ g.edges[i].target = c}
    IN /\ \A p, c \in GraphNames :
             /\ Count(get_dependencies(g, c), p) = Count(get_dependents(g, p), c)
             /\ Count(get_dependencies(g, c), p) = Cardinality(edges(p, c))
       /\ named \subseteq Range(g.adjacency.keys)
       /\ named \subseteq Range(g.reverse_adjacency.keys)

(* C28: after every add_operation and add_dependency call the two maps are *)
(* inverse to each other and agree with the edge list, p occurring in the  *)
(* dependencies of c as often as c in the dependents of p and as there are *)
(* edges from p to c; every name added or named in an edge is a key of     *)
(* both maps; and an add_operation leaves every dependency as it was.      *)
C28_MapsAgree ==
    [][/\ MapsAgree(graph')
       /\ result'.call = "add_operation" =>
             /\ graph'.edges = graph.edges
             /\ \A n \in GraphNames :
                   /\ get_dependencies(graph', n) = get_dependencies(graph, n)
                   /\ get_dependents(graph', n) = get_dependents(graph, n)]_vars

(* an operation is added under a name that has a dependency and a dependent *)
C28_Witness ==
    /\ result.call = "add_operation"
    /\ \E n \in Range(graph.operations.keys) :
          /\ get_dependencies(graph, n) # <<>>
          /\ get_dependents(graph, n) # <<>>
          /\ graph.operations.keys[Len(graph.operations.keys)] = n
    /\ Len(graph.edges) = MaxEdges

----------------------------------------------------------------------------
(* Properties of find_children (SpecChildren) *)

(* C25: find_children returns, in input order, the names that begin with   *)
(* the parent name and a separator and are one level deeper than it; when  *)
(* all the names and the parent name are valid, these are the names whose  *)
(* get_parent is the parent name, which is the group group_by_parent keeps *)
(* under the parent name, or the empty list when it keeps none.            *)
C25_ChildrenAreTheGroup ==
    (result.call = "find_children" /\ result.ret.ok) =>
        LET names == NamesOf(operations)
            parent == result.parent_name
            is_deeper(n) == /\ startswith(n, parent \o <<SEPARATOR>>)
                         /\ hierarchy_get_level(n).value = hierarchy_get_level(parent).value + 1
            is_child(n) == get_parent(n).value = parent
        IN /\ result.ret.value = SelectSeq(names, is_deeper)
           /\ AllValid(names) =>
                 /\ result.ret.value = SelectSeq(names, is_child)
                 /\ result.ret.value = DictGet(group_by_parent(names).value, parent, <<>>)

====
